---- MODULE Spec2Model ----
(***************************************************************************)
(* A model of the recipe pipeline of "What's In My Fridge": the recipe     *)
(* cache (src/cache.py), the feedback and preference store (src/db.py),    *)
(* the recipe provider with its placeholder generator (src/api.py), the    *)
(* ranker (src/ranker.py) and the cache key derivation (src/cache.py,      *)
(* src/app.py).                                                            *)
(*                                                                         *)
(* Conventions.                                                            *)
(*   - Python's Optional[T] is a sequence of length 0 (None) or 1.         *)
(*   - A Python dict whose iteration order is observed is a sequence of    *)
(*     entries in insertion order; a dict whose order is never observed is *)
(*     a function on the set of its keys.                                  *)
(*   - A score is an integer number of 1/SCALE units, so that every score  *)
(*     the code computes on the modelled inputs is exact.                  *)
(*   - time.time() is the variable now, in seconds.                        *)
(***************************************************************************)
EXTENDS Integers, Sequences, FiniteSets, TLC

VARIABLES
    cache,        \* RecipeCache.cache: key -> list of recipes
    metadata,     \* RecipeCache.metadata: ordered dict key -> entry metadata
    now,          \* the clock read by time.time()
    feedback,     \* DatabaseManager.feedback: the table's documents, in doc_id order
    preferences,  \* DatabaseManager.preferences: the table's documents
    vectorizer,   \* RecipeRanker.vectorizer
    classifier,   \* RecipeRanker.classifier
    op,           \* the call that completed last: its arguments and what it found
    ret,          \* what that call returned (Optional)
    lastRating,   \* history: (user_id, recipe_id) -> rating of the latest save
    api_key,      \* SpoonacularAPI.api_key (Optional)
    cache_file,   \* the content of recipe_cache.pkl (Optional: None before the first save)
    metadata_file, \* the content of cache_metadata.json (Optional)
    model_file,   \* the content of recipe_ranker.pkl (Optional)
    sessions,     \* session -> where its save_user_feedback call stands
    random_state  \* the generator of the random module: its seed and the draws made since

vars == <<cache, metadata, now, feedback, preferences, vectorizer, classifier,
          op, ret, lastRating, api_key, cache_file, metadata_file, model_file,
          sessions, random_state>>

fileVars == <<cache_file, metadata_file>>
cacheVars == <<cache, metadata, fileVars>>
dbVars == <<feedback, preferences, lastRating>>
mlVars == <<vectorizer, classifier, model_file>>
apiVars == <<api_key>>
sessionVars == <<sessions>>
rngVars == <<random_state>>

None == <<>>
Some(x) == <<x>>

(***************************************************************************)
(* Bounds of the model.                                                    *)
(***************************************************************************)
MaxTicks == 2         \* the clock advances at most this many times
MaxHits == 1          \* cache hits recorded in the metadata at any one time
\* self.max_cache_size is 1000 in src/cache.py:15; the model scales it
\* down so that a put can push the store over capacity within CacheKeys.
max_cache_size == 2

cache_duration == 24 * 60 * 60
\* The clock points of the model: 0, one TTL later, then every half TTL, so
\* that ages below, equal to and above the TTL all occur.
NextTime(t) == IF t = 0 THEN cache_duration ELSE t + cache_duration \div 2
TicksAt(t) == IF t = 0 THEN 0 ELSE 1 + (t - cache_duration) \div (cache_duration \div 2)

CacheKeys == {"k1", "k2", "k3"}

(***************************************************************************)
(* Recipes.  A recipe is the provider's dict as a record; a key the dict   *)
(* may lack is an Optional field.                                          *)
(***************************************************************************)
Recipe(id, title, used, missed, ready, health, diets, cuisines) ==
    [id |-> id, title |-> title,
     usedIngredients |-> used, missedIngredients |-> missed,
     readyInMinutes |-> ready, healthScore |-> health,
     diets |-> diets, cuisines |-> cuisines,
     base_score |-> None, ml_score |-> None, final_score |-> None]

\* dict.get(key, default)
Get(field, default) == IF field = None THEN default ELSE field[1]

Max(a, b) == IF a >= b THEN a ELSE b
Min(a, b) == IF a <= b THEN a ELSE b

OmeletRecipe ==
    Recipe(1, "omelet", Some(<<"egg", "spinach">>), Some(<<>>), Some(10), Some(80),
           Some(<<"vegetarian">>), Some(<<"French">>))
StewRecipe ==
    Recipe(2, "stew", Some(<<"egg">>), Some(<<"salt">>), Some(60), None, None, None)
CurryRecipe ==
    Recipe(3, "curry", Some(<<"rice">>), Some(<<"salt", "garlic">>), Some(40), Some(20),
           Some(<<"Vegan", "gluten free">>), Some(<<"Indian">>))
PastaRecipe ==
    Recipe(4, "pasta", Some(<<"egg">>), Some(<<"salt">>), Some(60), None,
           Some(<<"gluten-free">>), Some(<<"Italian">>))
SaladRecipe ==
    Recipe(5, "salad", Some(<<>>), None, None, Some(100), Some(<<"vegan">>), None)

\* What a cache entry holds: a list of recipes.
Payloads == { <<>>, <<OmeletRecipe>> }

(***************************************************************************)
(* The feedback and preference store, src/db.py.  A TinyDB table is the    *)
(* sequence of its documents in doc_id order.                              *)
(***************************************************************************)
MaxFeedback == 2      \* documents in the feedback table, in the store's own specification
MaxDbTicks == 1       \* clock advances in the store's own specification

Users == {"u1", "u2"}
DbRecipeIds == {1, 2}
Ratings == {"like", "dislike"}

Matches(doc, user_id, recipe_id) == doc.user_id = user_id /\ doc.recipe_id = recipe_id

AlwaysInsertFeedback(table, user_id, recipe_id, rating, recipe_data, t) ==
    Append(table, [user_id |-> user_id, recipe_id |-> recipe_id,
                   rating |-> rating, timestamp |-> t, recipe |-> recipe_data])

\* Every matching document replaced by the new entry.
ReplaceFeedback(table, user_id, recipe_id, rating, recipe_data, t) ==
    LET feedback_entry == [user_id |-> user_id, recipe_id |-> recipe_id,
                           rating |-> rating, timestamp |-> t, recipe |-> recipe_data]
    IN  IF \E i \in 1..Len(table) : Matches(table[i], user_id, recipe_id)
        THEN [i \in 1..Len(table) |->
                 IF Matches(table[i], user_id, recipe_id) THEN feedback_entry ELSE table[i]]
        ELSE Append(table, feedback_entry)

\* The update branch writes every matching document; the insert branch appends.
UpsertFeedback(table, user_id, recipe_id, rating, recipe_data, t) ==
    LET feedback_entry == [user_id |-> user_id, recipe_id |-> recipe_id,
                           rating |-> rating, timestamp |-> t, recipe |-> recipe_data]
        existing == SelectSeq(table, LAMBDA d : Matches(d, user_id, recipe_id))
    IN  IF existing # <<>>
        THEN [i \in 1..Len(table) |->
                 IF Matches(table[i], user_id, recipe_id)
                 THEN [table[i] EXCEPT !.rating = rating, !.timestamp = t]
                 ELSE table[i]]
        ELSE Append(table, feedback_entry)

get_user_feedback(table, user_id) ==
    SelectSeq(table, LAMBDA d : d.user_id = user_id)

\* The documented default object of get_user_preferences.
DefaultPreferences ==
    [vegetarian |-> Some(FALSE), vegan |-> Some(FALSE), gluten_free |-> Some(FALSE),
     max_prep_time |-> Some(60), preferred_cuisines |-> Some(<<>>)]

get_user_preferences(table, user_id) ==
    LET prefs == SelectSeq(table, LAMBDA d : d.user_id = user_id)
    IN  IF prefs # <<>> THEN prefs[1].preferences ELSE DefaultPreferences

save_user_feedback(user_id, recipe_id, rating, recipe_data) ==
    /\ feedback' = UpsertFeedback(feedback, user_id, recipe_id, rating, recipe_data, now)
    /\ lastRating' = [lastRating EXCEPT ![<<user_id, recipe_id>>] = Some(rating)]
    /\ op' = [name |-> "save_feedback", user_id |-> user_id, recipe_id |-> recipe_id,
              rating |-> rating, recipe_data |-> recipe_data]
    /\ ret' = None
    /\ UNCHANGED <<preferences, now, cacheVars, mlVars, apiVars, sessionVars, rngVars>>

GetUserFeedback(user_id) ==
    /\ op' = [name |-> "get_feedback", user_id |-> user_id]
    /\ ret' = Some(get_user_feedback(feedback, user_id))
    /\ UNCHANGED <<now, cacheVars, dbVars, mlVars, apiVars, sessionVars, rngVars>>

\* DatabaseManager.__init__ on a first run: empty tables.
InitDbVars ==
    /\ feedback = <<>>
    /\ preferences = <<>>
    /\ lastRating = [p \in Users \X DbRecipeIds |-> None]

\* What joblib.dump leaves in the model file: the two models, or a part of
\* the pickle that cannot be loaded.
SavedModels(v, c) == Some([corrupt |-> FALSE, vectorizer |-> v, classifier |-> c])

\* _initialize_models: a vectorizer and a classifier that are not fitted.
NewVectorizer == [fitted |-> FALSE, vocabulary |-> {}]
NewClassifier == [fitted |-> FALSE, coef |-> <<>>]

CorruptModels == Some([corrupt |-> TRUE, vectorizer |-> NewVectorizer, classifier |-> NewClassifier])

\* RecipeRanker.__init__ on a first run: no model file, so unfitted models.
InitMlVars ==
    /\ vectorizer = NewVectorizer
    /\ classifier = NewClassifier
    /\ model_file = None

\* SpoonacularAPI.__init__ in a deployment without SPOONACULAR_API_KEY.
InitApiVars == api_key = None

(***************************************************************************)
(* The recipe cache, src/cache.py.                                         *)
(***************************************************************************)
MdHas(md, k) == \E i \in 1..Len(md) : md[i].key = k

MdGet(md, k) == md[CHOOSE i \in 1..Len(md) : md[i].key = k]

\* d[k] = v on an ordered dict: an existing key keeps its position.
MdSet(md, k, v) ==
    IF MdHas(md, k)
    THEN [i \in 1..Len(md) |-> IF md[i].key = k THEN v ELSE md[i]]
    ELSE Append(md, v)

MdKeys(md) == { md[i].key : i \in 1..Len(md) }

\* The map with no key popped.
WithoutPop(f, S) == f

\* The map after pop(key, None) of every key outside S.
Restrict(f, S) == [k \in S |-> f[k]]

_is_cache_valid(md, k, t) ==
    /\ MdHas(md, k)
    /\ (t - MdGet(md, k).timestamp) < cache_duration

\* sorted(keys, key=timestamp): insertion into an ascending list, after
\* every element that is not newer (Python's sort is stable).
RECURSIVE InsertByTimestamp(_, _)
InsertByTimestamp(s, e) ==
    IF s = <<>> THEN <<e>>
    ELSE IF s[Len(s)].timestamp <= e.timestamp THEN Append(s, e)
    ELSE Append(InsertByTimestamp(SubSeq(s, 1, Len(s) - 1), e), s[Len(s)])

RECURSIVE SortedByTimestamp(_)
SortedByTimestamp(md) ==
    IF md = <<>> THEN <<>>
    ELSE InsertByTimestamp(SortedByTimestamp(SubSeq(md, 1, Len(md) - 1)), md[Len(md)])

NoExpiry(md, t) == {}

ExpiredKeys(md, t) ==
    { md[i].key : i \in { j \in 1..Len(md) : (t - md[j].timestamp) > cache_duration } }

KeysToRemoveNewest(md) ==
    LET sorted_keys == SortedByTimestamp(md)
        n == Len(sorted_keys) - max_cache_size
    IN  IF n <= 0 THEN {} ELSE { sorted_keys[i].key : i \in (max_cache_size + 1)..Len(sorted_keys) }

\* sorted_keys[:-max_cache_size]
KeysToRemove(md) ==
    LET sorted_keys == SortedByTimestamp(md)
        n == Len(sorted_keys) - max_cache_size
    IN  IF n <= 0 THEN {} ELSE { sorted_keys[i].key : i \in 1..n }

_cleanup_cache(c, md, t) ==
    LET expired_keys == ExpiredKeys(md, t)
        c1 == Restrict(c, DOMAIN c \ expired_keys)
        md1 == SelectSeq(md, LAMBDA e : e.key \notin expired_keys)
    IN  IF Cardinality(DOMAIN c1) > max_cache_size
        THEN LET keys_to_remove == KeysToRemove(md1)
             IN  [cache |-> Restrict(c1, DOMAIN c1 \ keys_to_remove),
                  metadata |-> SelectSeq(md1, LAMBDA e : e.key \notin keys_to_remove)]
        ELSE [cache |-> c1, metadata |-> md1]

TouchAndRestamp(entry, t) ==
    [entry EXCEPT !.timestamp = t, !.last_accessed = t, !.access_count = @ + 1]

\* The two metadata writes of a cache hit.
Touch(entry, t) == [entry EXCEPT !.last_accessed = t, !.access_count = @ + 1]

\* The hits the metadata records: every entry starts with access_count 1.
RECURSIVE TotalHits(_)
TotalHits(md) ==
    IF md = <<>> THEN 0 ELSE (md[Len(md)].access_count - 1) + TotalHits(SubSeq(md, 1, Len(md) - 1))

get_cached_recipes(cache_key) ==
    /\ op' = [name |-> "get", key |-> cache_key]
    /\ IF cache_key \in DOMAIN cache /\ _is_cache_valid(metadata, cache_key, now)
       THEN /\ TotalHits(metadata) < MaxHits
            /\ metadata' = MdSet(metadata, cache_key, Touch(MdGet(metadata, cache_key), now))
            /\ ret' = Some(cache[cache_key])
       ELSE /\ metadata' = metadata
            /\ ret' = None
    /\ UNCHANGED <<cache, fileVars, now, dbVars, mlVars, apiVars, sessionVars, rngVars>>

\* The cache and the metadata with the new entry, before the cleanup.
WithEntry(c, md, cache_key, recipes, current_time) ==
    [cache |-> [k \in DOMAIN c \cup {cache_key} |->
                   IF k = cache_key THEN recipes ELSE c[k]],
     metadata |-> MdSet(md, cache_key,
                      [key |-> cache_key,
                       timestamp |-> current_time,
                       last_accessed |-> current_time,
                       access_count |-> 1,
                       recipe_count |-> Len(recipes)])]

store_cached_recipes(cache_key, recipes) ==
    LET current_time == now
        put == WithEntry(cache, metadata, cache_key, recipes, current_time)
        c1 == put.cache
        md1 == put.metadata
        cleaned == _cleanup_cache(c1, md1, current_time)
    IN  /\ cache' = cleaned.cache
        /\ metadata' = cleaned.metadata
        /\ cache_file' = Some(cleaned.cache)
        /\ metadata_file' = Some(cleaned.metadata)
        /\ op' = [name |-> "store", key |-> cache_key, recipes |-> recipes,
                  replaced |-> cache_key \in DOMAIN cache,
                  removed |-> DOMAIN c1 \ DOMAIN cleaned.cache,
                  evicted |-> (DOMAIN c1 \ ExpiredKeys(md1, current_time))
                                 \ DOMAIN cleaned.cache]
        /\ ret' = None
        /\ UNCHANGED <<now, dbVars, mlVars, apiVars, sessionVars, rngVars>>

clear_cache ==
    /\ cache' = <<>>
    /\ metadata' = <<>>
    /\ cache_file' = Some(<<>>)
    /\ metadata_file' = Some(<<>>)
    /\ op' = [name |-> "clear"]
    /\ ret' = None
    /\ UNCHANGED <<now, dbVars, mlVars, apiVars, sessionVars, rngVars>>

\* Time passes between two calls.
Advance(limit) ==
    /\ TicksAt(now) < limit
    /\ now' = NextTime(now)
    /\ op' = [name |-> "tick"]
    /\ ret' = None
    /\ UNCHANGED <<cacheVars, dbVars, mlVars, apiVars, sessionVars, rngVars>>

Tick == Advance(MaxTicks)

\* The user sessions of the application, each a thread of the one process
\* that holds db_manager.
Sessions == {"s1", "s2"}

\* A session that is not inside save_user_feedback.
IdleSession ==
    [pc |-> "idle", user_id |-> "", recipe_id |-> 0, rating |-> "", recipe_data |-> None,
     existing |-> FALSE]

InitSessions == sessions = [s \in Sessions |-> IdleSession]

\* The random module at the start of a process: seeded from the system's
\* entropy, so with any seed.
ProcessSeeds == {11, 12}

InitAnyRng == random_state \in { [seed |-> n, drawn |-> 0] : n \in ProcessSeeds }

\* One of these starts, for the specifications that make no draw.
InitRng == random_state = [seed |-> 11, drawn |-> 0]

\* RecipeCache.__init__ on a first run: no cache file, no metadata file.
InitCacheVars ==
    /\ cache = <<>>
    /\ metadata = <<>>
    /\ cache_file = None
    /\ metadata_file = None

InitCalls ==
    /\ now = 0
    /\ op = [name |-> "init"]
    /\ ret = None

InitCache == InitCacheVars /\ InitSessions /\ InitRng /\ InitDbVars /\ InitMlVars /\ InitApiVars /\ InitCalls

GetCached == \E k \in CacheKeys : get_cached_recipes(k)

\* Every key is put with a recipe list; k1 is also put with an empty one, so
\* that a put can replace a payload by a different one.
PayloadsOf(k) == IF k = "k1" THEN Payloads ELSE Payloads \ { <<>> }

StoreCached == \E k \in CacheKeys : \E rs \in PayloadsOf(k) : store_cached_recipes(k, rs)

NextCache == GetCached \/ StoreCached \/ clear_cache \/ Tick

SpecCache == InitCache /\ [][NextCache]_vars

(***************************************************************************)
(* The cache under a clock of two thirds of the TTL: an entry can be hit   *)
(* before its TTL has passed and looked up after, within one TTL of the    *)
(* hit.                                                                    *)
(***************************************************************************)
TwoThirds == (2 * cache_duration) \div 3

TickTwoThirds ==
    /\ now < MaxTicks * TwoThirds
    /\ now' = now + TwoThirds
    /\ op' = [name |-> "tick"]
    /\ ret' = None
    /\ UNCHANGED <<cacheVars, dbVars, mlVars, apiVars, sessionVars, rngVars>>

NextLifetime == GetCached \/ StoreCached \/ clear_cache \/ TickTwoThirds

SpecLifetime == InitCache /\ [][NextLifetime]_vars

(***************************************************************************)
(* The ranker, src/ranker.py.  SCALE units make 1.0.                       *)
(***************************************************************************)
SCALE == 60000
MinFeedbackForML == 5

Wrap01(x) == x % (SCALE + 1)

\* max(0.0, min(1.0, x))
Clamp01(x) == Max(0, Min(SCALE, x))

\* Python truthiness of dict.get(key) for a list or a bool.
TruthyList(field) == field # None /\ field[1] # <<>>
TruthyBool(field) == field # None /\ field[1] = TRUE

TimeBonusStrict(ready_time) ==
    IF ready_time < 30 THEN 2 * (SCALE \div 10)
    ELSE IF ready_time < 45 THEN SCALE \div 10
    ELSE 0

TimeBonus(ready_time) ==
    IF ready_time <= 30 THEN 2 * (SCALE \div 10)
    ELSE IF ready_time <= 45 THEN SCALE \div 10
    ELSE 0

_calculate_base_score(recipe, user_ingredients) ==
    IF ~TruthyList(recipe.usedIngredients) THEN 0
    ELSE LET used_ingredients == recipe.usedIngredients[1]
             missed_ingredients == Get(recipe.missedIngredients, <<>>)
             ingredient_score ==
                 (Len(used_ingredients) * SCALE) \div Max(Len(user_ingredients), 1)
             missing_penalty == Len(missed_ingredients) * (SCALE \div 10)
             health_bonus == (Get(recipe.healthScore, 50) * 2 * SCALE) \div 1000
             time_bonus == TimeBonus(Get(recipe.readyInMinutes, 60))
             base_score == ingredient_score - missing_penalty + health_bonus + time_bonus
         IN  Clamp01(base_score)

\* str.lower() on the diet tags the model uses.
Lower(str) ==
    CASE str = "Vegan" -> "vegan"
      [] str = "Vegetarian" -> "vegetarian"
      [] str = "Gluten Free" -> "gluten free"
      [] OTHER -> str

LowerDiets(recipe) ==
    LET diets == Get(recipe.diets, <<>>)
    IN  { Lower(diets[i]) : i \in 1..Len(diets) }

_is_vegetarian(recipe) == "vegetarian" \in LowerDiets(recipe) \/ "vegan" \in LowerDiets(recipe)

_is_vegan(recipe) == "vegan" \in LowerDiets(recipe)

_is_gluten_free(recipe) ==
    "gluten free" \in LowerDiets(recipe) \/ "gluten-free" \in LowerDiets(recipe)

\* sorted(recipes, key=final_score, reverse=True): Python's sort is stable,
\* also with reverse=True, so an element goes after every element whose key
\* is not smaller.
RECURSIVE InsertByFinalScoreUnstable(_, _)
InsertByFinalScoreUnstable(s, r) ==
    IF s = <<>> THEN <<r>>
    ELSE IF Get(s[Len(s)].final_score, 0) > Get(r.final_score, 0) THEN Append(s, r)
    ELSE Append(InsertByFinalScoreUnstable(SubSeq(s, 1, Len(s) - 1), r), s[Len(s)])

\* An insertion that keeps one recipe per final_score.
RECURSIVE InsertDistinctScore(_, _)
InsertDistinctScore(s, r) ==
    IF s = <<>> THEN <<r>>
    ELSE IF Get(s[Len(s)].final_score, 0) = Get(r.final_score, 0) THEN s
    ELSE IF Get(s[Len(s)].final_score, 0) > Get(r.final_score, 0) THEN Append(s, r)
    ELSE Append(InsertDistinctScore(SubSeq(s, 1, Len(s) - 1), r), s[Len(s)])

RECURSIVE InsertByFinalScore(_, _)
InsertByFinalScore(s, r) ==
    IF s = <<>> THEN <<r>>
    ELSE IF Get(s[Len(s)].final_score, 0) >= Get(r.final_score, 0) THEN Append(s, r)
    ELSE Append(InsertByFinalScore(SubSeq(s, 1, Len(s) - 1), r), s[Len(s)])

RECURSIVE SortedByFinalScore(_)
SortedByFinalScore(recipes) ==
    IF recipes = <<>> THEN <<>>
    ELSE InsertByFinalScore(SortedByFinalScore(SubSeq(recipes, 1, Len(recipes) - 1)),
                            recipes[Len(recipes)])

RuleScoreNoClamp(recipe, prefs) ==
    Get(recipe.base_score, SCALE \div 2)
      + (IF TruthyBool(prefs.vegetarian) /\ _is_vegetarian(recipe) THEN SCALE \div 10 ELSE 0)
      + (IF TruthyBool(prefs.vegan) /\ _is_vegan(recipe) THEN SCALE \div 10 ELSE 0)
      + (IF TruthyBool(prefs.gluten_free) /\ _is_gluten_free(recipe) THEN SCALE \div 10 ELSE 0)
      + (IF Get(recipe.readyInMinutes, 60) <= Get(prefs.max_prep_time, 60)
         THEN SCALE \div 20 ELSE 0)
      + (LET preferred_cuisines == Get(prefs.preferred_cuisines, <<>>)
             recipe_cuisines == Get(recipe.cuisines, <<>>)
         IN  IF \E i \in 1..Len(recipe_cuisines), j \in 1..Len(preferred_cuisines) :
                    recipe_cuisines[i] = preferred_cuisines[j]
             THEN SCALE \div 10 ELSE 0)

RuleScore(recipe, prefs) == Min(SCALE, RuleScoreNoClamp(recipe, prefs))

\* The loop of _apply_rule_based_ranking: every dict of the list gets its
\* final_score, in place.
ScoredByRules(recipes, user_id) ==
    LET prefs == get_user_preferences(preferences, user_id)
    IN  [i \in 1..Len(recipes) |->
            [recipes[i] EXCEPT !.final_score = Some(RuleScore(recipes[i], prefs))]]

_apply_rule_based_ranking(recipes, user_id) ==
    SortedByFinalScore(ScoredByRules(recipes, user_id))

\* ' '.join(features).lower(): the text the vectorizer sees, as the sequence
\* of its lower-cased features.  The modelled recipes carry no summary,
\* cuisine or dishTypes key.
_extract_recipe_features(recipe) ==
    LET features ==
            (IF recipe.title # "" THEN <<recipe.title>> ELSE <<>>)
              \o (IF TruthyList(recipe.usedIngredients) THEN recipe.usedIngredients[1] ELSE <<>>)
              \o (IF TruthyList(recipe.diets) THEN recipe.diets[1] ELSE <<>>)
    IN  [i \in 1..Len(features) |-> Lower(features[i])]

\* classifier.predict_proba(vectorizer.transform(text))[1]: a linear score
\* over the tokens of the learned vocabulary, squashed into [0, 1].
RECURSIVE Weight(_, _, _)
Weight(tokens, vocabulary, coef) ==
    IF tokens = <<>> THEN 0
    ELSE (IF Head(tokens) \in vocabulary THEN coef[Head(tokens)] ELSE 0)
           + Weight(Tail(tokens), vocabulary, coef)

predict_proba(features) ==
    Clamp01(SCALE \div 2 + Weight(features, vectorizer.vocabulary, classifier.coef))

BlendEvenly(base_score, ml_score) == (5 * base_score + 5 * ml_score) \div 10

\* 0.6 * base_score + 0.4 * ml_score
Blend(base_score, ml_score) == (6 * base_score + 4 * ml_score) \div 10

\* The stages of the ML path at which the environment can make a call raise.
FailModes == {"none", "feedback", "extract", "transform", "predict"}

Returned(value) == [raised |-> FALSE, value |-> value]
Raised == [raised |-> TRUE, value |-> None]

FeedbackOfEveryone(table, user_id) == table

FeedbackForRanking(table, user_id) == get_user_feedback(table, user_id)

\* The combination loop of _apply_ml_ranking: every dict of the list gets
\* its ml_score and final_score, in place.
ScoredByModel(recipes) ==
    [i \in 1..Len(recipes) |->
        LET ml_score == predict_proba(_extract_recipe_features(recipes[i]))
            base_score == Get(recipes[i].base_score, SCALE \div 2)
        IN  [recipes[i] EXCEPT !.ml_score = Some(ml_score),
                               !.final_score = Some(Blend(base_score, ml_score))]]

_apply_ml_ranking(recipes, user_id, fail) ==
    IF fail = "feedback" THEN Raised
    ELSE IF Len(FeedbackForRanking(feedback, user_id)) < MinFeedbackForML THEN Returned(None)
    ELSE IF fail = "extract" THEN Raised
    ELSE IF recipes = <<>> THEN Returned(None)
    ELSE IF ~vectorizer.fitted THEN Returned(None)
    ELSE IF fail = "transform" THEN Returned(None)
    ELSE IF ~classifier.fitted THEN Returned(None)
    ELSE IF fail = "predict" THEN Returned(None)
    ELSE Returned(Some(SortedByFinalScore(ScoredByModel(recipes))))

NoOuterHandler(ml_ranked) == ml_ranked

\* try: ml_ranked = ... except Exception: (fall through to the rule-based path)
OuterHandler(ml_ranked) == IF ml_ranked.raised THEN Returned(None) ELSE ml_ranked

\* RecipeRanker.rank_recipes: what the call returns, and by which path.
BaseScored(recipes, user_ingredients) ==
    [i \in 1..Len(recipes) |->
        [recipes[i] EXCEPT
            !.base_score = Some(_calculate_base_score(recipes[i], user_ingredients))]]

RankRecipes(recipes, user_id, user_ingredients, fail) ==
    IF recipes = <<>> THEN [raised |-> FALSE, path |-> "empty", value |-> Some(recipes)]
    ELSE LET based == BaseScored(recipes, user_ingredients)
             ml_ranked == OuterHandler(_apply_ml_ranking(based, user_id, fail))
         IN  IF ml_ranked.raised
             THEN [raised |-> TRUE, path |-> "ml", value |-> None]
             ELSE IF ml_ranked.value # None /\ ml_ranked.value[1] # <<>>
             THEN [raised |-> FALSE, path |-> "ml", value |-> Some(ml_ranked.value[1])]
             ELSE [raised |-> FALSE, path |-> "rule",
                   value |-> Some(_apply_rule_based_ranking(based, user_id))]

\* The dicts of the list passed to rank_recipes, in the order of that list,
\* as the call leaves them: it writes the scores into the caller's dicts
\* and returns a new list of the same dicts.
RecipesAfterRank(recipes, user_id, user_ingredients, fail) ==
    IF recipes = <<>> THEN recipes
    ELSE LET based == BaseScored(recipes, user_ingredients)
             out == RankRecipes(recipes, user_id, user_ingredients, fail)
         IN  IF out.raised THEN based
             ELSE IF out.path = "ml" THEN ScoredByModel(based)
             ELSE ScoredByRules(based, user_id)

rank_recipes(recipes, user_id, user_ingredients, fail) ==
    LET out == RankRecipes(recipes, user_id, user_ingredients, fail)
    IN  /\ op' = [name |-> "rank", recipes |-> recipes, user_id |-> user_id,
                  user_ingredients |-> user_ingredients, fail |-> fail,
                  path |-> out.path, raised |-> out.raised]
        /\ ret' = out.value
        /\ UNCHANGED <<now, cacheVars, dbVars, mlVars, apiVars, sessionVars, rngVars>>

(***************************************************************************)
(* Inputs of the ranker's specifications.                                  *)
(***************************************************************************)
MaxUsed == 2              \* usedIngredients of a scored recipe
MaxMissed == 2            \* missedIngredients of a scored recipe
MaxUserIngredients == 3   \* the user's ingredient list
MaxRecipes == 3           \* recipes in one ranking call
MaxRankRecipes == 2       \* recipes in one call of the path-selection specification

IngredientNames == <<"egg", "spinach", "milk", "rice", "tomato">>
MissingNames == <<"salt", "pepper", "olive oil", "garlic">>

Prefix(seq, n) == SubSeq(seq, 1, n)

ListsUpTo(S, n) == UNION { [1..k -> S] : k \in 0..n }

UserIngredientLists == { Prefix(IngredientNames, n) : n \in 0..MaxUserIngredients }

ScoreRecipes ==
    { Recipe(1, "omelet", used, missed, ready, health, None, None) :
        used \in {None} \cup { Some(Prefix(IngredientNames, n)) : n \in 0..MaxUsed },
        missed \in {None} \cup { Some(Prefix(MissingNames, n)) : n \in 0..MaxMissed },
        ready \in {None, Some(0), Some(30), Some(31), Some(45), Some(46)},
        health \in {None, Some(0), Some(80), Some(100)} }

\* _calculate_base_score applied to one recipe.
CalculateBaseScore ==
    /\ op.name = "input"
    /\ op' = [op EXCEPT !.name = "base_score"]
    /\ ret' = Some(_calculate_base_score(op.recipe, op.user_ingredients))
    /\ UNCHANGED <<now, cacheVars, dbVars, mlVars, apiVars, sessionVars, rngVars>>

InitScore ==
    /\ InitCacheVars /\ InitSessions /\ InitRng /\ InitDbVars /\ InitMlVars /\ InitApiVars
    /\ now = 0
    /\ ret = None
    /\ op \in { [name |-> "input", recipe |-> r, user_ingredients |-> ui] :
                  r \in ScoreRecipes, ui \in UserIngredientLists }

NextScore == CalculateBaseScore

SpecScore == InitScore /\ [][NextScore]_vars

(***************************************************************************)
(* The base score of a recipe and of the same recipe with one more used    *)
(* or one more missed ingredient.                                          *)
(***************************************************************************)
\* The list of a usedIngredients or missedIngredients key with one more
\* entry; a missing key becomes a list of one.
WithOneMore(field, name) == Some(Append(Get(field, <<>>), name))

ScoreAgain(step, recipe) ==
    /\ op.name = "base_score"
    /\ op' = [name |-> step, recipe |-> recipe, user_ingredients |-> op.user_ingredients,
              before |-> ret[1]]
    /\ ret' = Some(_calculate_base_score(recipe, op.user_ingredients))
    /\ UNCHANGED <<now, cacheVars, dbVars, mlVars, apiVars, sessionVars, rngVars>>

ScoreWithMoreUsed ==
    ScoreAgain("more_used",
               [op.recipe EXCEPT !.usedIngredients = WithOneMore(@, "tomato")])

ScoreWithMoreMissed ==
    ScoreAgain("more_missed",
               [op.recipe EXCEPT !.missedIngredients = WithOneMore(@, "garlic")])

NextMonotone == CalculateBaseScore \/ ScoreWithMoreUsed \/ ScoreWithMoreMissed

SpecMonotone == InitScore /\ [][NextMonotone]_vars

\* A feedback table with n1 documents of u1 followed by n2 documents of u2.
FeedbackStore(n1, n2) ==
    [i \in 1..(n1 + n2) |->
        [user_id |-> IF i <= n1 THEN "u1" ELSE "u2",
         recipe_id |-> IF i <= n1 THEN i ELSE i - n1,
         rating |-> "like", timestamp |-> 0, recipe |-> None]]

PreferenceStore(user_id, prefs) ==
    << [user_id |-> user_id, preferences |-> prefs, timestamp |-> 0] >>

\* What the settings page saves: no preferred_cuisines key.
SavedPreferences(vegetarian, vegan, gluten_free, max_prep_time) ==
    [vegetarian |-> Some(vegetarian), vegan |-> Some(vegan),
     gluten_free |-> Some(gluten_free), max_prep_time |-> Some(max_prep_time),
     preferred_cuisines |-> None]

Vocabulary == {"omelet", "egg", "vegan"}
Coefficients == [Vocabulary -> {0 - (SCALE \div 4), 0, SCALE \div 4}]

RankPool == {OmeletRecipe, StewRecipe}
RecipePool == {OmeletRecipe, StewRecipe, CurryRecipe, PastaRecipe, SaladRecipe}

RankLists == ListsUpTo(RankPool, MaxRankRecipes)
RecipeLists == ListsUpTo(RecipePool, MaxRecipes)
RankIngredientLists == { <<"egg", "spinach">>, <<>> }

InitRankCalls ==
    /\ InitCacheVars /\ InitSessions /\ InitRng
    /\ InitApiVars
    /\ lastRating = <<>>
    /\ now = 0
    /\ op = [name |-> "init"]
    /\ ret = None

\* Path selection: every feedback count around the threshold, fitted and
\* unfitted models, every failure stage.
InitRank ==
    /\ InitRankCalls
    /\ feedback \in { FeedbackStore(n1, n2) :
                        n1 \in {0, MinFeedbackForML - 1, MinFeedbackForML},
                        n2 \in {0, MinFeedbackForML} }
    /\ preferences \in { <<>>, PreferenceStore("u1", SavedPreferences(TRUE, FALSE, FALSE, 30)) }
    /\ \/ vectorizer = [fitted |-> FALSE, vocabulary |-> {}]
          /\ classifier = [fitted |-> FALSE, coef |-> <<>>]
       \/ vectorizer = [fitted |-> TRUE, vocabulary |-> Vocabulary]
          /\ classifier = [fitted |-> FALSE, coef |-> <<>>]
       \/ vectorizer = [fitted |-> TRUE, vocabulary |-> Vocabulary]
          /\ classifier \in { [fitted |-> TRUE, coef |-> c] :
                               c \in { [t \in Vocabulary |-> 0],
                                       [t \in Vocabulary |-> SCALE \div 4] } }
    /\ model_file = IF classifier.fitted THEN SavedModels(vectorizer, classifier) ELSE None

\* One ranking call; the call changes none of the stores.
RankAny ==
    /\ op.name = "init"
    /\ \E recipes \in RankLists, u \in Users, ui \in RankIngredientLists, fail \in FailModes :
          rank_recipes(recipes, u, ui, fail)

NextRank == RankAny

SpecRank == InitRank /\ [][NextRank]_vars

(***************************************************************************)
(* Ranking twice: the second call is given the caller's list as the first  *)
(* call left it, or the list the first call returned.                      *)
(***************************************************************************)
\* The lists a caller holds after rank_recipes(recipes, ...) returned.
ListsAfterRank ==
    { RecipesAfterRank(op.recipes, op.user_id, op.user_ingredients, op.fail), ret[1] }

rank_again(given) ==
    LET out == RankRecipes(given, op.user_id, op.user_ingredients, op.fail)
    IN  /\ op' = [name |-> "rerank", recipes |-> given, user_id |-> op.user_id,
                  user_ingredients |-> op.user_ingredients, fail |-> op.fail,
                  path |-> out.path, raised |-> out.raised,
                  original |-> op.recipes, first |-> ret]
        /\ ret' = out.value
        /\ UNCHANGED <<now, cacheVars, dbVars, mlVars, apiVars, sessionVars, rngVars>>

RankAgain ==
    /\ op.name = "rank"
    /\ ret # None
    /\ \E given \in ListsAfterRank : rank_again(given)

NextRerank == RankAny \/ RankAgain

SpecRerank == InitRank /\ [][NextRerank]_vars

\* The rule-based path: no feedback, no fitted model, every preference.
InitRule ==
    /\ InitRankCalls
    /\ InitMlVars
    /\ feedback = <<>>
    /\ preferences \in
         {<<>>} \cup
         { PreferenceStore("u1", [SavedPreferences(veg, vegan, gf, 60) EXCEPT
                                     !.max_prep_time = t, !.preferred_cuisines = c]) :
             veg \in BOOLEAN, vegan \in BOOLEAN, gf \in BOOLEAN,
             t \in {None, Some(30), Some(60)},
             c \in {None, Some(<<"Italian", "Indian">>)} }

RankByRules ==
    /\ op.name = "init"
    /\ \E recipes \in RecipeLists : rank_recipes(recipes, "u1", <<"egg", "spinach">>, "none")

NextRule == RankByRules

SpecRule == InitRule /\ [][NextRule]_vars

\* The learned path: enough feedback and a fitted model, every coefficient vector.
InitML ==
    /\ InitRankCalls
    /\ feedback = FeedbackStore(MinFeedbackForML, 0)
    /\ preferences = <<>>
    /\ vectorizer = [fitted |-> TRUE, vocabulary |-> Vocabulary]
    /\ classifier \in { [fitted |-> TRUE, coef |-> c] : c \in Coefficients }
    /\ model_file = SavedModels(vectorizer, classifier)

RankByModel ==
    /\ op.name = "init"
    /\ \E recipes \in RecipeLists : rank_recipes(recipes, "u1", <<"egg", "spinach">>, "none")

NextML == RankByModel

SpecML == InitML /\ [][NextML]_vars

(***************************************************************************)
(* The feedback store on its own.                                          *)
(***************************************************************************)
\* The recipe snapshot a feedback document may carry.
Snapshots == { None, Some(OmeletRecipe) }

SaveFeedback ==
    \E u \in Users, rid \in DbRecipeIds, rating \in Ratings, data \in Snapshots :
        /\ Len(feedback) < MaxFeedback \/ \E i \in 1..Len(feedback) : Matches(feedback[i], u, rid)
        /\ save_user_feedback(u, rid, rating, data)

GetFeedback == \E u \in Users : GetUserFeedback(u)

InitDb == InitCacheVars /\ InitSessions /\ InitRng /\ InitDbVars /\ InitMlVars /\ InitApiVars /\ InitCalls

TickDb == Advance(MaxDbTicks)

NextDb == SaveFeedback \/ GetFeedback \/ TickDb

SpecDb == InitDb /\ [][NextDb]_vars

(***************************************************************************)
(* Concurrent sessions in save_user_feedback.  Nothing in src/db.py        *)
(* serializes the calls; each TinyDB call (search, update, insert) is      *)
(* taken as one step, and the steps of two sessions interleave.            *)
(***************************************************************************)
\* existing = self.feedback.search(user_id == ... & recipe_id == ...)
LookupFeedback(s, user_id, recipe_id, rating, recipe_data) ==
    /\ sessions[s].pc = "idle"
    /\ sessions' = [sessions EXCEPT ![s] =
                       [pc |-> "found", user_id |-> user_id, recipe_id |-> recipe_id,
                        rating |-> rating, recipe_data |-> recipe_data,
                        existing |-> \E i \in 1..Len(feedback) :
                                        Matches(feedback[i], user_id, recipe_id)]]
    /\ op' = [name |-> "lookup", session |-> s]
    /\ ret' = None
    /\ UNCHANGED <<now, cacheVars, dbVars, mlVars, apiVars, rngVars>>

\* if existing: self.feedback.update(...) else: self.feedback.insert(feedback_entry),
\* on the value of existing found by the session's lookup.
WriteOf(table, call, t) ==
    IF call.existing
    THEN [i \in 1..Len(table) |->
             IF Matches(table[i], call.user_id, call.recipe_id)
             THEN [table[i] EXCEPT !.rating = call.rating, !.timestamp = t]
             ELSE table[i]]
    ELSE Append(table, [user_id |-> call.user_id, recipe_id |-> call.recipe_id,
                        rating |-> call.rating, timestamp |-> t,
                        recipe |-> call.recipe_data])

WriteFeedback(s) ==
    /\ sessions[s].pc = "found"
    /\ feedback' = WriteOf(feedback, sessions[s], now)
    /\ lastRating' = [lastRating EXCEPT ![<<sessions[s].user_id, sessions[s].recipe_id>>] =
                          Some(sessions[s].rating)]
    /\ sessions' = [sessions EXCEPT ![s].pc = "done"]
    /\ op' = [name |-> "write", session |-> s]
    /\ ret' = None
    /\ UNCHANGED <<preferences, now, cacheVars, mlVars, apiVars, rngVars>>

Lookup ==
    \E s \in Sessions, u \in Users, rid \in DbRecipeIds, rating \in Ratings, data \in Snapshots :
        LookupFeedback(s, u, rid, rating, data)

Write == \E s \in Sessions : WriteFeedback(s)

\* An empty table, or one document of u1 for recipe 1.
InitConcurrent ==
    /\ InitCacheVars /\ InitSessions /\ InitRng /\ InitMlVars /\ InitApiVars /\ InitCalls
    /\ feedback \in { <<>>, <<[user_id |-> "u1", recipe_id |-> 1, rating |-> "like",
                              timestamp |-> 0, recipe |-> None]>> }
    /\ preferences = <<>>
    /\ lastRating = [p \in Users \X DbRecipeIds |-> None]

NextConcurrent == Lookup \/ Write

SpecConcurrent == InitConcurrent /\ [][NextConcurrent]_vars

(***************************************************************************)
(* Strings whose text is observed (sorted, joined, lower-cased, hashed)    *)
(* are spelled out as the sequence of their characters.                    *)
(***************************************************************************)
Chars(str) ==
    CASE str = "" -> <<>>
      [] str = "egg" -> <<"e", "g", "g">>
      [] str = "Egg " -> <<"E", "g", "g", " ">>
      [] str = "e_5" -> <<"e", "_", "5">>
      [] str = "Any" -> <<"A", "n", "y">>
      [] str = "Breakfast" -> <<"B", "r", "e", "a", "k", "f", "a", "s", "t">>
      [] str = "Lunch" -> <<"L", "u", "n", "c", "h">>
      [] str = "Dinner" -> <<"D", "i", "n", "n", "e", "r">>
      [] str = "Dessert" -> <<"D", "e", "s", "s", "e", "r", "t">>
      [] str = "Brunch" -> <<"B", "r", "u", "n", "c", "h">>
      [] str = "breakfast" -> <<"b", "r", "e", "a", "k", "f", "a", "s", "t">>
      [] str = "lunch" -> <<"l", "u", "n", "c", "h">>
      [] str = "dinner" -> <<"d", "i", "n", "n", "e", "r">>
      [] str = "dessert" -> <<"d", "e", "s", "s", "e", "r", "t">>
      [] str = "Asian" -> <<"A", "s", "i", "a", "n">>
      [] str = "Keto" -> <<"K", "e", "t", "o">>
      [] str = "rice" -> <<"r", "i", "c", "e">>
      [] str = "beans" -> <<"b", "e", "a", "n", "s">>
      [] str = "eggs" -> <<"e", "g", "g", "s">>
      [] str = "cup" -> <<"c", "u", "p">>
      [] str = "cups" -> <<"c", "u", "p", "s">>
      [] str = " " -> <<" ">>
      [] str = "2, 1" -> <<"2", ",", " ", "1">>
      [] str = "Egg; rice" -> <<"E", "g", "g", ";", " ", "r", "i", "c", "e">>
      [] str = "2 cups rice" -> <<"2", " ", "c", "u", "p", "s", " ", "r", "i", "c", "e">>
      [] str = "tomato" -> <<"t", "o", "m", "a", "t", "o">>
      [] str = "peas" -> <<"p", "e", "a", "s">>
      [] str = "pear" -> <<"p", "e", "a", "r">>
      [] str = "ribs" -> <<"r", "i", "b", "s">>
      [] str = "a of" -> <<"a", " ", "o", "f">>
      [] str = "e" -> <<"e">>
      [] str = "Tomato" -> <<"T", "o", "m", "a", "t", "o">>
      [] str = "fresh tomatoes" -> <<"f", "r", "e", "s", "h", " ", "t", "o", "m", "a", "t", "o", "e", "s">>
      [] str = "2 cups chopped tomatoes" -> <<"2", " ", "c", "u", "p", "s", " ", "c", "h", "o", "p", "p", "e", "d", " ", "t", "o", "m", "a", "t", "o", "e", "s">>
      [] str = "a cup of" -> <<"a", " ", "c", "u", "p", " ", "o", "f">>
      [] str = "2 cups" -> <<"2", " ", "c", "u", "p", "s">>
      [] str = "fresh" -> <<"f", "r", "e", "s", "h">>
      [] str = "chopped" -> <<"c", "h", "o", "p", "p", "e", "d">>
      [] str = "a" -> <<"a">>
      [] str = "of" -> <<"o", "f">>
      [] str = "2" -> <<"2">>

\* The strings spelled out above.
SpelledStrings ==
    {"", "egg", "Egg ", "e_5", "Any", "Breakfast", "Lunch", "Dinner", "Dessert",
     "Brunch", "breakfast", "lunch", "dinner", "dessert", "Asian", "Keto",
     "rice", "beans", "eggs", "cup", "cups", " ", "2, 1", "Egg; rice", "2 cups rice",
     "tomato", "peas", "pear", "ribs", "a of", "e", "Tomato", "fresh tomatoes",
     "2 cups chopped tomatoes", "a cup of", "2 cups", "fresh", "chopped", "a", "of", "2"}

\* The characters of the modelled strings, in code point order.
Alphabet ==
    <<" ", ",", "0", "1", "2", "3", "4", "5", "6", "7", "8", "9", ";",
      "A", "B", "D", "E", "K", "L", "T", "_",
      "a", "b", "c", "d", "e", "f", "g", "h", "i", "k", "l", "m", "n", "o", "p", "r",
      "s", "t", "u", "y">>

\* The rank of ord(c) among the modelled characters.
OrdTable ==
    [c \in { Alphabet[i] : i \in 1..Len(Alphabet) } |->
        CHOOSE i \in 1..Len(Alphabet) : Alphabet[i] = c]

Ord(c) == OrdTable[c]

LowerChar(c) ==
    CASE c = "A" -> "a" [] c = "B" -> "b" [] c = "D" -> "d"
      [] c = "E" -> "e" [] c = "K" -> "k" [] c = "L" -> "l"
      [] c = "T" -> "t"
      [] OTHER -> c

\* str.lower()
StrLower(s) == [i \in 1..Len(s) |-> LowerChar(s[i])]

RECURSIVE LStrip(_)
LStrip(s) == IF s # <<>> /\ Head(s) = " " THEN LStrip(Tail(s)) ELSE s

RECURSIVE RStrip(_)
RStrip(s) == IF s # <<>> /\ s[Len(s)] = " " THEN RStrip(SubSeq(s, 1, Len(s) - 1)) ELSE s

\* str.strip()
StrStrip(s) == RStrip(LStrip(s))

\* s < t on Python strings: lexicographic by code point.
RECURSIVE StrLess(_, _)
StrLess(s, t) ==
    IF t = <<>> THEN FALSE
    ELSE IF s = <<>> THEN TRUE
    ELSE IF Head(s) = Head(t) THEN StrLess(Tail(s), Tail(t))
    ELSE Ord(Head(s)) < Ord(Head(t))

RECURSIVE InsertString(_, _)
InsertString(list, e) ==
    IF list = <<>> THEN <<e>>
    ELSE IF ~StrLess(e, list[Len(list)]) THEN Append(list, e)
    ELSE Append(InsertString(SubSeq(list, 1, Len(list) - 1), e), list[Len(list)])

Unsorted(list) == list

\* sorted(list) on a list of strings
RECURSIVE sorted(_)
sorted(list) ==
    IF list = <<>> THEN <<>>
    ELSE InsertString(sorted(SubSeq(list, 1, Len(list) - 1)), list[Len(list)])

\* sep.join(list)
RECURSIVE Join(_, _)
Join(list, sep) ==
    IF list = <<>> THEN <<>>
    ELSE IF Len(list) = 1 THEN list[1]
    ELSE list[1] \o sep \o Join(Tail(list), sep)

Digit(d) == Alphabet[Ord("0") + d]

\* str(n) for n >= 0
RECURSIVE str(_)
str(n) == IF n < 10 THEN <<Digit(n)>> ELSE Append(str(n \div 10), Digit(n % 10))

\* hashlib.md5(text).hexdigest(): the digest stands for the text it was
\* computed from, distinct texts having distinct digests.
md5_hexdigest(text) == <<"md5", text>>

(***************************************************************************)
(* Cache key derivation, src/cache.py and src/app.py.                      *)
(***************************************************************************)
MaxKeyIngredients == 2    \* ingredients of one request of the key specification

\* json.dumps(key_data, sort_keys=True): the members of the dict in key
\* order; the JSON text of a member is one-to-one with its value.
json_dumps(key_data) ==
    << <<"cuisine", key_data.cuisine>>, <<"diet", key_data.diet>>,
       <<"ingredients", key_data.ingredients>>,
       <<"max_results", key_data.max_results>>,
       <<"meal_type", key_data.meal_type>> >>

_generate_cache_key(ingredients, kwargs) ==
    LET sorted_ingredients ==
            sorted([i \in 1..Len(ingredients) |-> StrStrip(StrLower(Chars(ingredients[i])))])
        key_data == [ingredients |-> sorted_ingredients] @@ kwargs
        key_string == json_dumps(key_data)
    IN  md5_hexdigest(key_string)

\* create_cache_key(ingredients, max_results, cuisine, meal_type=..., diet=...)
create_cache_key(ingredients, max_results, cuisine, kwargs) ==
    LET params == [max_results |-> max_results, cuisine |-> cuisine] @@ kwargs
    IN  _generate_cache_key(ingredients, params)

\* The key search_recipes computes:
\* md5(f"{','.join(sorted(ings))}_{max_recipes}_{meal_type}_{cuisine_filter}_{diet_filter}")
search_cache_key(normalized_ingredients, max_recipes, meal_type, cuisine_filter, diet_filter) ==
    LET names == [i \in 1..Len(normalized_ingredients) |-> Chars(normalized_ingredients[i])]
    IN  md5_hexdigest(Join(sorted(names), <<",">>) \o <<"_">> \o str(max_recipes)
                        \o <<"_">> \o Chars(meal_type)
                        \o <<"_">> \o Chars(cuisine_filter)
                        \o <<"_">> \o Chars(diet_filter))

KeyIngredientNames == {"Egg ", "e_5"}
KeyIngredientLists == ListsUpTo(KeyIngredientNames, MaxKeyIngredients)
NumbersOfRecipes == {5, 10}
MealTypes == {"Any", "Lunch"}
CuisineFilters == {"Any", "Asian"}
DietFilters == {"Any", "Keto"}

KeyRequests ==
    { [ingredients |-> ings, max_recipes |-> n, meal_type |-> m,
       cuisine_filter |-> c, diet_filter |-> d] :
        ings \in KeyIngredientLists, n \in NumbersOfRecipes, m \in MealTypes,
        c \in CuisineFilters, d \in DietFilters }

SearchKeyOf(r) ==
    search_cache_key(r.ingredients, r.max_recipes, r.meal_type, r.cuisine_filter, r.diet_filter)

CreateKeyOf(r) ==
    create_cache_key(r.ingredients, r.max_recipes, r.cuisine_filter,
                     [meal_type |-> r.meal_type, diet |-> r.diet_filter])

\* Both derivations applied to two requests.
DeriveKeys ==
    /\ op.name = "input"
    /\ op' = [op EXCEPT !.name = "keys"]
    /\ ret' = Some([search_a |-> SearchKeyOf(op.a), search_b |-> SearchKeyOf(op.b),
                    create_a |-> CreateKeyOf(op.a), create_b |-> CreateKeyOf(op.b)])
    /\ UNCHANGED <<now, cacheVars, dbVars, mlVars, apiVars, sessionVars, rngVars>>

InitKey ==
    /\ InitCacheVars /\ InitSessions /\ InitRng /\ InitDbVars /\ InitMlVars /\ InitApiVars
    /\ now = 0
    /\ ret = None
    /\ op \in { [name |-> "input", a |-> ra, b |-> rb] : ra \in KeyRequests, rb \in KeyRequests }

NextKey == DeriveKeys

SpecKey == InitKey /\ [][NextKey]_vars

(***************************************************************************)
(* The recipe provider and its placeholder generator, src/api.py.          *)
(***************************************************************************)
MaxResults == 7           \* max_results of one fetch

Template(title_patterns, base_title, cook_time_range, servings_range, health_score_range) ==
    [title_patterns |-> title_patterns, base_title |-> base_title,
     cook_time_range |-> cook_time_range, servings_range |-> servings_range,
     health_score_range |-> health_score_range]

breakfast_templates ==
    << Template(<<"{} Scramble", "{} and {} Omelet", "Morning {} Bowl">>,
                "Breakfast Scramble", <<5, 15>>, <<1, 2>>, <<70, 85>>),
       Template(<<"{} Pancakes", "{} French Toast", "Quick {} Breakfast">>,
                "Breakfast Stack", <<10, 20>>, <<2, 4>>, <<60, 75>>) >>

lunch_templates ==
    << Template(<<"{} Salad", "{} and {} Bowl", "Fresh {} Lunch">>,
                "Garden Lunch Bowl", <<10, 20>>, <<1, 2>>, <<80, 95>>),
       Template(<<"{} Sandwich", "{} and {} Wrap", "Quick {} Lunch">>,
                "Lunch Wrap", <<5, 15>>, <<1, 2>>, <<65, 80>>) >>

dinner_templates ==
    << Template(<<"{} Stir Fry", "{} and {} Saute", "Pan-Fried {}">>,
                "Dinner Stir Fry", <<20, 35>>, <<2, 4>>, <<70, 85>>),
       Template(<<"{} Casserole", "{} and {} Bake", "Baked {}">>,
                "Dinner Casserole", <<35, 60>>, <<3, 6>>, <<65, 80>>) >>

dessert_templates ==
    << Template(<<"{} Cookies", "{} and {} Cake", "Sweet {} Treat">>,
                "Sweet Dessert", <<20, 45>>, <<4, 8>>, <<30, 50>>),
       Template(<<"{} Parfait", "{} and {} Smoothie", "Fresh {} Dessert">>,
                "Fruit Parfait", <<5, 15>>, <<2, 4>>, <<60, 75>>) >>

general_templates ==
    << Template(<<"{} Scramble", "{} and {} Bowl", "Quick {} Mix">>,
                "Fresh Ingredient Scramble", <<10, 20>>, <<1, 3>>, <<70, 85>>),
       Template(<<"{} Stir Fry", "{} and {} Saute", "Pan-Fried {}">>,
                "Simple Stir Fry", <<15, 25>>, <<2, 4>>, <<65, 80>>),
       Template(<<"{} Soup", "{} and {} Broth", "Hearty {} Soup">>,
                "Comfort Soup", <<30, 60>>, <<3, 6>>, <<75, 90>>),
       Template(<<"{} Salad", "Fresh {} Bowl", "{} and {} Salad">>,
                "Garden Fresh Salad", <<5, 15>>, <<1, 2>>, <<85, 95>>),
       Template(<<"{} Pasta", "{} and {} Pasta", "Creamy {} Pasta">>,
                "One-Pot Pasta", <<20, 35>>, <<3, 5>>, <<60, 75>>),
       Template(<<"{} Curry", "Spiced {} Dish", "{} and {} Curry">>,
                "Aromatic Curry", <<25, 45>>, <<3, 4>>, <<70, 85>>) >>

missing_options ==
    <<"salt", "pepper", "olive oil", "garlic", "onion", "herbs", "lemon", "butter">>

\* Python truthiness of an Optional[str].
TruthyStr(field) == field # None /\ field[1] # ""

\* The template list _get_mock_recipes selects for a meal type.
TemplatesFor(meal_type) ==
    IF TruthyStr(meal_type)
    THEN LET meal_type_lower == StrLower(Chars(meal_type[1]))
         IN  IF meal_type_lower = Chars("breakfast") THEN breakfast_templates
             ELSE IF meal_type_lower = Chars("lunch") THEN lunch_templates
             ELSE IF meal_type_lower = Chars("dinner") THEN dinner_templates
             ELSE IF meal_type_lower = Chars("dessert") THEN dessert_templates
             ELSE breakfast_templates \o lunch_templates \o SubSeq(dinner_templates, 1, 2)
    ELSE general_templates

\* int(md5(text).hexdigest()[:8], 16): a number fixed by the text; the
\* model keeps 16 bits of it.
RECURSIVE Fold(_)
Fold(text) ==
    IF text = <<>> THEN 7
    ELSE (31 * Fold(SubSeq(text, 1, Len(text) - 1)) + Ord(text[Len(text)])) % 65536

SeedOf(digest) == Fold(digest[2])

\* The k-th draw after random.seed(seed), as random.randint(lo, hi): a
\* value of lo..hi fixed by the seed and the position in the stream.
Draw(seed, k, lo, hi) == lo + ((seed + 7919 * k) % (hi - lo + 1))

\* random.sample(list, n) at position k of the stream: n elements at
\* distinct positions of the list.
Sample(list, n, seed, k) ==
    LET r == Draw(seed, k, 0, Max(Len(list), 1) - 1)
    IN  [i \in 1..n |-> list[((r + i - 1) % Len(list)) + 1]]

\* One iteration of the loop of _get_mock_recipes; i counts from 1, so the
\* recipe id is i.  The title is carried as the text before the ingredient
\* names are substituted into it.
MockRecipe(template, i, rng, ingredients) ==
    LET k == rng.drawn + 8 * (i - 1)
        seed == rng.seed
        title == IF Len(ingredients) >= 2
                 THEN template.title_patterns[Draw(seed, k + 1, 1, Len(template.title_patterns))]
                 ELSE template.base_title
        cook_time == Draw(seed, k + 2, template.cook_time_range[1], template.cook_time_range[2])
        health_score ==
            Draw(seed, k + 4, template.health_score_range[1], template.health_score_range[2])
        num_used == Min(Len(ingredients), Draw(seed, k + 5, 2, 4))
        used_ingredients == Sample(ingredients, num_used, seed, k + 6)
        num_missing == Draw(seed, k + 7, 1, 3)
        missing_ingredients == Sample(missing_options, num_missing, seed, k + 8)
    IN  [id |-> i, title |-> title,
         usedIngredients |-> Some(used_ingredients),
         missedIngredients |-> Some(missing_ingredients),
         readyInMinutes |-> Some(cook_time), healthScore |-> Some(health_score),
         diets |-> None, cuisines |-> None,
         base_score |-> None, ml_score |-> None, final_score |-> None]

NotSeeded(state, seed) == state

\* random.seed(seed)
Seeded(state, seed) == [seed |-> seed, drawn |-> 0]

\* The generator as _get_mock_recipes(ingredients, ...) seeds it.
MockRng(ingredients) ==
    LET names == [i \in 1..Len(ingredients) |-> Chars(ingredients[i])]
        ingredients_str == Join(sorted(names), <<",">>)
    IN  Seeded(random_state, SeedOf(md5_hexdigest(ingredients_str)))

_get_mock_recipes(ingredients, max_results, meal_type) ==
    LET rng == MockRng(ingredients)
        recipe_templates == TemplatesFor(meal_type)
    IN  [i \in 1..Min(max_results, Len(recipe_templates)) |->
            MockRecipe(recipe_templates[i], i, rng, ingredients)]

\* The generator after _get_mock_recipes(ingredients, ...) returned mock_recipes.
RngAfterMock(ingredients, mock_recipes) ==
    [MockRng(ingredients) EXCEPT !.drawn = @ + 8 * Len(mock_recipes)]

\* What the provider returns from findByIngredients: no readyInMinutes, no
\* healthScore, no diets.
ProviderOmelet ==
    Recipe(101, "omelet", Some(<<"egg">>), Some(<<>>), None, None, None, None)
ProviderStew ==
    Recipe(102, "stew", Some(<<"egg">>), Some(<<"salt">>), None, None, None, None)

ProviderIds == {101, 102}

\* The outcome of requests.get(...): the call raises (timeout, connection
\* error) or yields a response; json = None is a body that is not JSON.
RaisesResponse == [kind |-> "raises", status_code |-> 0, json |-> None]

SearchResponses ==
    {RaisesResponse} \cup
    { [kind |-> "response", status_code |-> c, json |-> j] :
        c \in {200, 500},
        j \in {None, Some(<<>>), Some(<<ProviderOmelet>>),
               Some(<<ProviderOmelet, ProviderStew>>)} }

InfoResponses ==
    {RaisesResponse} \cup
    { [kind |-> "response", status_code |-> 404, json |-> None],
      [kind |-> "response", status_code |-> 200, json |-> None],
      [kind |-> "response", status_code |-> 200,
       json |-> Some([readyInMinutes |-> Some(25), healthScore |-> None])] }

\* _enhance_recipe: every failure is caught and the recipe returned as it is.
_enhance_recipe(recipe, info) ==
    IF recipe.id = 0 THEN recipe
    ELSE IF info.kind = "raises" THEN recipe
    ELSE IF info.status_code = 200
    THEN IF info.json = None THEN recipe
         ELSE LET detailed_info == info.json[1]
              IN  [recipe EXCEPT
                      !.readyInMinutes = Some(Get(detailed_info.readyInMinutes, 0)),
                      !.healthScore = Some(Get(detailed_info.healthScore, 0))]
    ELSE recipe

Fetched(path, value) == [raised |-> FALSE, path |-> path, value |-> Some(value)]
FetchRaised == [raised |-> TRUE, path |-> "api", value |-> None]

\* The body of the try block of SpoonacularAPI.fetch_recipes.
TryFetch(ingredients, max_results, meal_type, cuisine, search, info) ==
    IF search.kind = "raises" THEN FetchRaised
    ELSE IF search.status_code = 200
    THEN IF search.json = None THEN FetchRaised
         ELSE LET recipes == search.json[1]
              IN  Fetched("api", [i \in 1..Len(recipes) |->
                                     _enhance_recipe(recipes[i], info[recipes[i].id])])
    ELSE Fetched("mock", _get_mock_recipes(ingredients, max_results, None))

NoFetchHandler(attempt, ingredients, max_results) == attempt

\* except Exception: return self._get_mock_recipes(ingredients, max_results)
FetchHandler(attempt, ingredients, max_results) ==
    IF attempt.raised
    THEN Fetched("mock", _get_mock_recipes(ingredients, max_results, None))
    ELSE attempt

FetchRecipes(ingredients, max_results, meal_type, cuisine, search, info) ==
    IF ~TruthyStr(api_key)
    THEN Fetched("mock", _get_mock_recipes(ingredients, max_results, meal_type))
    ELSE FetchHandler(TryFetch(ingredients, max_results, meal_type, cuisine, search, info),
                      ingredients, max_results)

fetch_recipes(ingredients, max_results, meal_type, cuisine, search, info) ==
    LET out == FetchRecipes(ingredients, max_results, meal_type, cuisine, search, info)
    IN  /\ op' = [name |-> "fetch", ingredients |-> ingredients, max_results |-> max_results,
                  meal_type |-> meal_type, cuisine |-> cuisine, search |-> search,
                  info |-> info, path |-> out.path, raised |-> out.raised]
        /\ ret' = out.value
        /\ random_state' = IF out.path = "mock"
                           THEN RngAfterMock(ingredients, out.value[1]) ELSE random_state
        /\ UNCHANGED <<now, cacheVars, dbVars, mlVars, apiVars, sessionVars>>

ApiKeys == {None, Some(""), Some("key")}
FetchIngredientLists == { <<>>, <<"egg">>, <<"egg", "e_5", "Egg ">> }
FetchMealTypes ==
    {None, Some(""), Some("Breakfast"), Some("Lunch"), Some("Dinner"), Some("Dessert"),
     Some("Brunch")}
FetchCuisines == {None, Some("Asian")}

\* No request is made without a key, so there is no response to choose.
NoResponses == {RaisesResponse}

\* One fetch; the provider answers the search and each information request.
Fetch ==
    /\ op.name = "init"
    /\ \E ingredients \in FetchIngredientLists, max_results \in 0..MaxResults,
          meal_type \in FetchMealTypes, cuisine \in FetchCuisines,
          search \in (IF TruthyStr(api_key) THEN SearchResponses ELSE NoResponses),
          info \in [ProviderIds -> (IF TruthyStr(api_key) THEN InfoResponses ELSE NoResponses)] :
          fetch_recipes(ingredients, max_results, meal_type, cuisine, search, info)

InitFetch ==
    /\ InitCacheVars /\ InitSessions /\ InitRng /\ InitDbVars /\ InitMlVars /\ InitCalls
    /\ api_key \in ApiKeys

NextFetch == Fetch

SpecFetch == InitFetch /\ [][NextFetch]_vars

(***************************************************************************)
(* Fetching again: a fetch, any other fetch or none, and a fetch with the  *)
(* arguments of the first.                                                 *)
(***************************************************************************)
RefetchIngredientLists == { <<"egg">>, <<"egg", "e_5", "Egg ">> }
RefetchNumbers == {2, MaxResults}
RefetchMealTypes == {None, Some("Dinner")}
RefetchResponses ==
    {RaisesResponse,
     [kind |-> "response", status_code |-> 500, json |-> None],
     [kind |-> "response", status_code |-> 200, json |-> Some(<<ProviderOmelet>>)]}
RefetchInfo == [ProviderIds -> {RaisesResponse}]

\* The answers the provider can give to a fetch of this process.
AnswersNow == IF TruthyStr(api_key) THEN RefetchResponses ELSE NoResponses

\* fetch_recipes as a step of the sequence; first describes the first fetch
\* and other the fetch made in between.
FetchStep(step, ingredients, max_results, meal_type, search, info, first) ==
    LET out == FetchRecipes(ingredients, max_results, meal_type, None, search, info)
        this == [ingredients |-> ingredients, max_results |-> max_results,
                 meal_type |-> meal_type, path |-> out.path, value |-> out.value]
    IN  /\ op' = [name |-> step, path |-> out.path, raised |-> out.raised, call |-> this,
                  first |-> IF step = "first" THEN this ELSE first,
                  other |-> IF step = "again" /\ op.name = "between" THEN op.call ELSE this]
        /\ ret' = out.value
        /\ random_state' = IF out.path = "mock"
                           THEN RngAfterMock(ingredients, out.value[1]) ELSE random_state
        /\ UNCHANGED <<now, cacheVars, dbVars, mlVars, apiVars, sessionVars>>

FetchFirst ==
    /\ op.name = "init"
    /\ \E ingredients \in RefetchIngredientLists, max_results \in RefetchNumbers,
          meal_type \in RefetchMealTypes, search \in AnswersNow, info \in RefetchInfo :
          FetchStep("first", ingredients, max_results, meal_type, search, info, op)

FetchBetween ==
    /\ op.name = "first"
    /\ \E ingredients \in RefetchIngredientLists, max_results \in RefetchNumbers,
          meal_type \in RefetchMealTypes, search \in AnswersNow, info \in RefetchInfo :
          FetchStep("between", ingredients, max_results, meal_type, search, info, op.first)

FetchAgain ==
    /\ op.name \in {"first", "between"}
    /\ \E search \in AnswersNow, info \in RefetchInfo :
          FetchStep("again", op.first.ingredients, op.first.max_results, op.first.meal_type,
                    search, info, op.first)

InitRefetch ==
    /\ InitCacheVars /\ InitSessions /\ InitAnyRng /\ InitDbVars /\ InitMlVars /\ InitCalls
    /\ api_key \in {None, Some("key")}

NextRefetch == FetchFirst \/ FetchBetween \/ FetchAgain

SpecRefetch == InitRefetch /\ [][NextRefetch]_vars

(***************************************************************************)
(* Ingredient normalization, src/nlp_simple.py.  The module defines        *)
(* normalize_ingredients and _clean_ingredient twice; the later definition *)
(* of each is the one in effect.  Texts are sequences of characters.       *)
(***************************************************************************)
\* The string of the model spelled by a sequence of characters.
Str(chars) == CHOOSE s \in SpelledStrings : Chars(s) = chars

IsDigit(c) == c \in {"0", "1", "2", "3", "4", "5", "6", "7", "8", "9"}

\* \s and \w of the regular expressions, on the modelled characters.
IsSpace(c) == c = " "
IsWordChar(c) == c \notin {" ", ",", ";", ".", "/"}

\* The characters of [,;\n\r]
IsDelimiter(c) == c \in {",", ";"}

\* re.split(r'[,;\n\r]+', text): the pieces between runs of delimiters, the
\* empty pieces before a leading and after a trailing run included.
RECURSIVE SplitSegments(_, _)
SplitSegments(text, piece) ==
    IF text = <<>> THEN <<piece>>
    ELSE IF IsDelimiter(Head(text))
    THEN IF Len(text) >= 2 /\ IsDelimiter(text[2])
         THEN SplitSegments(Tail(text), piece)
         ELSE <<piece>> \o SplitSegments(Tail(text), <<>>)
    ELSE SplitSegments(Tail(text), Append(piece, Head(text)))

\* re.sub(r'\d+[\./\d]*', '', s); in_number says that the characters before
\* the head of s belong to a number being removed.
RECURSIVE RemoveNumbers(_, _)
RemoveNumbers(s, in_number) ==
    IF s = <<>> THEN <<>>
    ELSE IF IsDigit(Head(s)) THEN RemoveNumbers(Tail(s), TRUE)
    ELSE IF in_number /\ Head(s) \in {".", "/"} THEN RemoveNumbers(Tail(s), TRUE)
    ELSE <<Head(s)>> \o RemoveNumbers(Tail(s), FALSE)

\* The measurement and descriptor words of _clean_ingredient that can be
\* spelled with the modelled characters and occur in the modelled texts.
measurement_words == {"cup", "cups", "fresh", "chopped"}

\* The maximal runs of word characters and of other characters of s, in order.
RECURSIVE Runs(_, _)
Runs(s, run) ==
    IF s = <<>> THEN (IF run = <<>> THEN <<>> ELSE <<run>>)
    ELSE IF run = <<>> \/ IsWordChar(Head(s)) = IsWordChar(run[1])
    THEN Runs(Tail(s), Append(run, Head(s)))
    ELSE <<run>> \o Runs(Tail(s), <<Head(s)>>)

RECURSIVE Concat(_)
Concat(list) == IF list = <<>> THEN <<>> ELSE Head(list) \o Concat(Tail(list))

\* re.sub(r'\b(?:cup|cups|...)\b', '', s): a whole word of the list is removed.
RemoveMeasurementWords(s) ==
    LET runs == Runs(s, <<>>)
        IsMeasure(run) == \E w \in measurement_words : Chars(w) = run
    IN  Concat(SelectSeq(runs, LAMBDA run : ~IsMeasure(run)))

\* re.sub(r'[^\w\s]', '', s)
RemoveSpecial(s) == SelectSeq(s, LAMBDA c : IsWordChar(c) \/ IsSpace(c))

\* re.sub(r'\s+', ' ', s)
RECURSIVE CollapseSpaces(_)
CollapseSpaces(s) ==
    IF s = <<>> THEN <<>>
    ELSE IF IsSpace(Head(s)) /\ Len(s) >= 2 /\ IsSpace(s[2]) THEN CollapseSpaces(Tail(s))
    ELSE <<Head(s)>> \o CollapseSpaces(Tail(s))

\* str.split(): the words between runs of whitespace.
Words(s) == SelectSeq(Runs(s, <<>>), LAMBDA run : IsWordChar(run[1]))

\* The entries of STOP_WORDS that occur in the modelled texts.  No code of
\* the module reads the table.
STOP_WORDS == {"fresh", "chopped", "cup", "cups", "of", "a", "2"}

\* FUZZY_MATCH_THRESHOLD of src/config.py; src/nlp_simple.py does not read it.
FUZZY_MATCH_THRESHOLD == 85

\* The entries of COMMON_INGREDIENTS that can be spelled with the modelled
\* characters and are near the modelled texts.
COMMON_INGREDIENTS == {"egg", "rice", "beans", "tomato", "peas"}

\* difflib.SequenceMatcher: the length of the common block starting at a[i], b[j].
RECURSIVE MatchLen(_, _, _, _)
MatchLen(a, b, i, j) ==
    IF i > Len(a) \/ j > Len(b) THEN 0
    ELSE IF a[i] # b[j] THEN 0
    ELSE 1 + MatchLen(a, b, i + 1, j + 1)

\* find_longest_match: the longest common block, the earliest in a and then
\* the earliest in b among the longest.
LongestMatch(a, b) ==
    LET Longest(size) ==
            LET k == CHOOSE n \in 0..Len(a) :
                         /\ \E i \in 1..Len(a), j \in 1..Len(b) : size[i, j] = n
                         /\ \A i \in 1..Len(a), j \in 1..Len(b) : size[i, j] <= n
                i == CHOOSE x \in 1..Len(a) :
                         /\ \E j \in 1..Len(b) : size[x, j] = k
                         /\ \A y \in 1..(x - 1) : \A j \in 1..Len(b) : size[y, j] < k
                j == CHOOSE x \in 1..Len(b) :
                         /\ size[i, x] = k
                         /\ \A y \in 1..(x - 1) : size[i, y] < k
            IN  [i |-> i, j |-> j, size |-> k]
    IN  Longest([i \in 1..Len(a), j \in 1..Len(b) |-> MatchLen(a, b, i, j)])

\* The total size of the matching blocks of a and b.
RECURSIVE Matches2(_, _)
Matches2(a, b) ==
    IF a = <<>> \/ b = <<>> THEN 0
    ELSE LET Around(m) ==
                 IF m.size = 0 THEN 0
                 ELSE m.size
                        + Matches2(SubSeq(a, 1, m.i - 1), SubSeq(b, 1, m.j - 1))
                        + Matches2(SubSeq(a, m.i + m.size, Len(a)),
                                   SubSeq(b, m.j + m.size, Len(b)))
         IN  Around(LongestMatch(a, b))

\* fuzz.ratio(s1, s2) = int(round(100 * 2 * M / T)), 0 for an empty string;
\* round goes to the even neighbour on a tie.
fuzz_ratio(s1, s2) ==
    IF s1 = <<>> \/ s2 = <<>> THEN 0
    ELSE LET Rounded(matches, total) ==
                 LET q == (200 * matches) \div total
                     r == (200 * matches) % total
                 IN  IF 2 * r > total THEN q + 1
                     ELSE IF 2 * r = total THEN q + (q % 2)
                     ELSE q
         IN  Rounded(Matches2(s1, s2), Len(s1) + Len(s2))

\* The outcomes of _find_best_ingredient_match.  The fuzzy loop iterates over
\* a set of strings, whose order differs from one process to the next, and
\* keeps the first word with the best score: any word with the best score
\* of at least 70 can be the fuzzy match.
BestMatches(ingredient) ==
    IF ingredient = <<>> THEN { <<>> }
    ELSE IF \E w \in COMMON_INGREDIENTS : Chars(w) = ingredient THEN { ingredient }
    ELSE LET Best(words, known, fuzzy) ==
                 IF known # {}
                 THEN { words[CHOOSE i \in known : \A k \in known : i <= k] }
                 ELSE IF fuzzy # {} THEN fuzzy
                 ELSE { ingredient }
             Among(words, common, score) ==
                 Best(words,
                      { i \in 1..Len(words) : words[i] \in common },
                      { w \in common : score[w] >= 70 /\ \A v \in common : score[v] <= score[w] })
             Scored(common) ==
                 Among(Words(ingredient), common, [w \in common |-> fuzz_ratio(ingredient, w)])
         IN  Scored({ Chars(w) : w \in COMMON_INGREDIENTS })

\* _clean_ingredient up to the match against the common ingredients.
CleanText(ingredient) ==
    IF ingredient = <<>> THEN <<>>
    ELSE StrStrip(CollapseSpaces(RemoveSpecial(RemoveMeasurementWords(
             RemoveNumbers(StrStrip(StrLower(ingredient)), FALSE)))))

\* The outcomes of _clean_ingredient(ingredient).
_clean_ingredient(ingredient) ==
    LET Matched(text) == IF text = <<>> THEN { <<>> } ELSE BestMatches(text)
    IN  Matched(CleanText(ingredient))

\* The list with its duplicates.
KeepAll(list, seen) == list

\* Remove duplicates while preserving order.
RECURSIVE Dedupe(_, _)
Dedupe(list, seen) ==
    IF list = <<>> THEN <<>>
    ELSE IF Head(list) \in seen THEN Dedupe(Tail(list), seen)
    ELSE <<Head(list)>> \o Dedupe(Tail(list), seen \cup {Head(list)})

\* normalize_ingredients(ingredient_text) with the given choice of the
\* outcome of _clean_ingredient for every segment.
NormalizeWith(ingredient_text, cleaned) ==
    LET kept == SelectSeq(cleaned, LAMBDA c : c # <<>> /\ Len(c) > 1)
    IN  Dedupe([i \in 1..Len(kept) |-> Str(kept[i])], {})

\* The choices of the outcome of _clean_ingredient for the segments of
\* ingredient_text; no segment is cleaned when the text is empty or blank.
CleanedChoices(ingredient_text) ==
    IF ingredient_text = <<>> \/ StrStrip(ingredient_text) = <<>> THEN { <<>> }
    ELSE LET Choices(outcomes) ==
                 { c \in [DOMAIN outcomes -> UNION { outcomes[i] : i \in DOMAIN outcomes }] :
                     \A i \in DOMAIN outcomes : c[i] \in outcomes[i] }
             Cleaned(ingredients) ==
                 Choices([i \in 1..Len(ingredients) |->
                             _clean_ingredient(StrStrip(ingredients[i]))])
         IN  Cleaned(SplitSegments(StrLower(ingredient_text), <<>>))

\* The outcomes of normalize_ingredients(ingredient_text).
normalize_ingredients(ingredient_text) ==
    { NormalizeWith(ingredient_text, cleaned) : cleaned \in CleanedChoices(ingredient_text) }

(***************************************************************************)
(* The normalizer on its own: a text of segments separated by ", ".        *)
(***************************************************************************)
MaxSegments == 2          \* segments of one ingredient text

SegmentPool == {"Tomato", "fresh tomatoes", "a cup of", "2 cups", "pear", "ribs", "eggs", "e"}

\* Three spellings of one ingredient, and a text with a repeated segment
\* and a single letter.
ExampleSegmentLists ==
    { <<"2 cups chopped tomatoes", "Tomato", "fresh tomatoes">>,
      <<"ribs", "e", "eggs", "ribs">> }

SegmentLists == ListsUpTo(SegmentPool, MaxSegments) \cup ExampleSegmentLists

\* The text of the user: the segments separated by ", ".
IngredientTexts ==
    { Join([i \in 1..Len(segments) |-> Chars(segments[i])], <<",", " ">>) :
        segments \in SegmentLists }

\* normalize_ingredients(ingredient_text) on the text of the user; op keeps
\* what _clean_ingredient returned for every segment.
Normalize ==
    /\ op.name = "input"
    /\ \E cleaned \in CleanedChoices(op.text) :
          /\ op' = [name |-> "normalize", text |-> op.text, cleaned |-> cleaned]
          /\ ret' = Some(NormalizeWith(op.text, cleaned))
    /\ UNCHANGED <<now, cacheVars, dbVars, mlVars, apiVars, sessionVars, rngVars>>

InitNormalize ==
    /\ InitCacheVars /\ InitSessions /\ InitRng /\ InitDbVars /\ InitMlVars /\ InitApiVars
    /\ now = 0
    /\ ret = None
    /\ op \in { [name |-> "input", text |-> text] : text \in IngredientTexts }

NextNormalize == Normalize

SpecNormalize == InitNormalize /\ [][NextNormalize]_vars

(***************************************************************************)
(* The search pipeline, src/app.py: normalize, derive the key, look the    *)
(* key up, fetch and store on a miss, rank.  The cache keeps the list      *)
(* object it is given and hands the same object out on a hit, and the      *)
(* ranker writes the scores into the dicts of the list it is given: the    *)
(* cached entry and the ranked recipes are the same dicts.                 *)
(***************************************************************************)
\* meal_type if meal_type != "Any" else None
UnlessAny(choice) == IF choice # "Any" THEN Some(choice) ELSE None

\* Python truthiness of an Optional[List].
\* A stored list counts, empty or not.
NotNone(field) == field # None

TruthyRecipes(field) == field # None /\ field[1] # <<>>

\* search_recipes once normalize_ingredients has returned normalized_ingredients;
\* search and info are the provider's answers, fail the stage at which the
\* model-based ranking fails.
SearchWith(ingredient_input, normalized_ingredients, max_recipes, meal_type, cuisine_filter, diet_filter, user_id, search, info, fail) ==
    LET cache_key == search_cache_key(normalized_ingredients, max_recipes, meal_type,
                                      cuisine_filter, diet_filter)
        hit == cache_key \in DOMAIN cache /\ _is_cache_valid(metadata, cache_key, now)
        cached_recipes == IF hit THEN Some(cache[cache_key]) ELSE None
        touched == IF hit THEN MdSet(metadata, cache_key, Touch(MdGet(metadata, cache_key), now))
                   ELSE metadata
        fetched == FetchRecipes(normalized_ingredients, max_recipes, UnlessAny(meal_type),
                                UnlessAny(cuisine_filter), search, info)
        Outcome(message, recipes, did_fetch, did_store, did_rank) ==
            [name |-> "search", ingredient_input |-> ingredient_input,
             normalized_ingredients |-> normalized_ingredients, key |-> cache_key,
             hit |-> hit, message |-> message, recipes |-> recipes,
             fetched |-> did_fetch, stored |-> did_store, ranked |-> did_rank]
        Rank(c, recipes, did_fetch) ==
            IF recipes = <<>>
            THEN /\ cache' = c
                 /\ op' = Outcome("none", recipes, did_fetch, did_fetch, FALSE)
                 /\ ret' = None
            ELSE LET out == RankRecipes(recipes, user_id, <<>>, fail)
                     after == RecipesAfterRank(recipes, user_id, <<>>, fail)
                 IN  /\ cache' = IF cache_key \in DOMAIN c
                                 THEN [c EXCEPT ![cache_key] = after] ELSE c
                     /\ op' = Outcome(IF out.raised THEN "error" ELSE "found",
                                      recipes, did_fetch, did_fetch, TRUE)
                     /\ ret' = out.value
    IN  /\ hit => TotalHits(metadata) < MaxHits
        /\ IF TruthyRecipes(cached_recipes)
           THEN /\ metadata' = touched
                /\ UNCHANGED fileVars
                /\ Rank(cache, cached_recipes[1], FALSE)
           ELSE IF fetched.raised
           THEN /\ metadata' = touched
                /\ op' = Outcome("error", <<>>, TRUE, FALSE, FALSE)
                /\ ret' = None
                /\ UNCHANGED <<cache, fileVars>>
           ELSE LET recipes == fetched.value[1]
                    put == WithEntry(cache, touched, cache_key, recipes, now)
                    cleaned == _cleanup_cache(put.cache, put.metadata, now)
                IN  /\ metadata' = cleaned.metadata
                    /\ cache_file' = Some(cleaned.cache)
                    /\ metadata_file' = Some(cleaned.metadata)
                    /\ Rank(cleaned.cache, recipes, TRUE)
        /\ random_state' = IF ~TruthyRecipes(cached_recipes) /\ fetched.path = "mock"
                           THEN RngAfterMock(normalized_ingredients, fetched.value[1])
                           ELSE random_state
        /\ UNCHANGED <<now, dbVars, mlVars, apiVars, sessionVars>>

search_recipes(ingredient_input, max_recipes, meal_type, cuisine_filter, diet_filter, user_id, search, info, fail) ==
    \E normalized_ingredients \in normalize_ingredients(Chars(ingredient_input)) :
        SearchWith(ingredient_input, normalized_ingredients, max_recipes, meal_type,
                   cuisine_filter, diet_filter, user_id, search, info, fail)

\* The click on "Find Recipes" in show_recipe_finder.
show_recipe_finder(ingredient_input, max_recipes, meal_type, cuisine_filter, diet_filter, user_id, search, info, fail) ==
    IF StrStrip(Chars(ingredient_input)) # <<>>
    THEN search_recipes(ingredient_input, max_recipes, meal_type, cuisine_filter,
                        diet_filter, user_id, search, info, fail)
    ELSE /\ op' = [name |-> "search", ingredient_input |-> ingredient_input,
                   normalized_ingredients |-> <<>>, key |-> <<>>, hit |-> FALSE,
                   message |-> "enter", recipes |-> <<>>,
                   fetched |-> FALSE, stored |-> FALSE, ranked |-> FALSE]
         /\ ret' = None
         /\ UNCHANGED <<now, cacheVars, dbVars, mlVars, apiVars, sessionVars, rngVars>>

MaxSearchTicks == 1       \* clock steps of a search specification

\* What the user types: nothing, blanks, quantities only, ingredients.
IngredientInputs == {"", " ", "2, 1", "Egg; rice"}
SearchMealTypes == {"Any"}
SearchProviderResponses ==
    {[kind |-> "response", status_code |-> 200, json |-> Some(<<ProviderOmelet, ProviderStew>>)]}
SearchInfoResponses ==
    {[kind |-> "response", status_code |-> 200,
      json |-> Some([readyInMinutes |-> Some(25), healthScore |-> None])]}
SearchFailModes == {"none"}

FindRecipes ==
    \E ingredient_input \in IngredientInputs, meal_type \in SearchMealTypes,
       search \in (IF TruthyStr(api_key) THEN SearchProviderResponses ELSE NoResponses),
       info \in [ProviderIds -> SearchInfoResponses], fail \in SearchFailModes :
       show_recipe_finder(ingredient_input, 5, meal_type, "Any", "Any", "u1",
                          search, info, fail)

TickSearch == Advance(MaxSearchTicks)

\* An empty cache and no cache files, a trained model; the user has given
\* no feedback or enough of it for the model-based ranking.
InitSearch ==
    /\ InitCacheVars /\ InitSessions /\ InitRng /\ InitCalls
    /\ lastRating = <<>>
    /\ api_key \in {None, Some("key")}
    /\ feedback \in {FeedbackStore(0, 0), FeedbackStore(MinFeedbackForML, 0)}
    /\ preferences = <<>>
    /\ vectorizer = [fitted |-> TRUE, vocabulary |-> Vocabulary]
    /\ classifier = [fitted |-> TRUE, coef |-> [t \in Vocabulary |-> SCALE \div 4]]
    /\ model_file = SavedModels(vectorizer, classifier)

NextSearch == FindRecipes \/ TickSearch

SpecSearch == InitSearch /\ [][NextSearch]_vars

(***************************************************************************)
(* Searching again: the provider answers with recipes, with no recipe, or  *)
(* not at all.                                                             *)
(***************************************************************************)
RepeatInputs == {"Egg; rice", " "}

RepeatResponses ==
    SearchProviderResponses
      \cup {RaisesResponse, [kind |-> "response", status_code |-> 200, json |-> Some(<<>>)]}

FindAgain ==
    \E ingredient_input \in RepeatInputs,
       search \in (IF TruthyStr(api_key) THEN RepeatResponses ELSE NoResponses),
       info \in [ProviderIds -> SearchInfoResponses] :
       show_recipe_finder(ingredient_input, 5, "Any", "Any", "Any", "u1", search, info, "none")

NextRepeat == FindAgain \/ TickSearch

SpecRepeat == InitSearch /\ [][NextRepeat]_vars

(***************************************************************************)
(* Training, src/ranker.py: train_on_feedback fits the vectorizer and the  *)
(* classifier in place, one after the other, and saves them on success;    *)
(* the constructor loads what the model file holds.                        *)
(***************************************************************************)
MinFeedbackForTraining == 10

\* 1 if rating in ['like', 'love', 'tried'] else 0
Label(rating) == IF rating \in {"like", "love", "tried"} THEN 1 ELSE 0

\* The terms of the training texts.  The bigrams the vectorizer also
\* learns are fixed by the same texts and are left out.
TermsOf(X_text) ==
    UNION { { X_text[i][j] : j \in 1..Len(X_text[i]) } : i \in 1..Len(X_text) }

\* vectorizer.fit_transform(X_text): the vocabulary is learned from the texts.
FitVectorizer(X_text) == [fitted |-> TRUE, vocabulary |-> TermsOf(X_text)]

\* classifier.fit(X, y): one coefficient per term of the vocabulary of X,
\* fixed by the training set: here the balance of the labels of the texts
\* the term occurs in.
FitClassifier(X_text, y, vocabulary) ==
    LET Has(i, t) == \E j \in 1..Len(X_text[i]) : X_text[i][j] = t
        pos(t) == Cardinality({ i \in 1..Len(y) : y[i] = 1 /\ Has(i, t) })
        neg(t) == Cardinality({ i \in 1..Len(y) : y[i] = 0 /\ Has(i, t) })
    IN  [fitted |-> TRUE,
         coef |-> [t \in vocabulary |-> (pos(t) - neg(t)) * (SCALE \div 40)]]

\* What a fit that raises can leave in the classifier: the classifier as it
\* was, or coefficients allocated for the new vocabulary and not trained.
AfterFailedFit(old, vocabulary) ==
    { old, [fitted |-> TRUE, coef |-> [t \in vocabulary |-> 0]] }

\* The stages of train_on_feedback at which the environment can make a call
\* raise; "save" is joblib.dump.
TrainFailModes == {"none", "feedback", "vectorizer", "classifier", "save"}

\* feedback_data = get_user_feedback(user_id)
TrainingFeedback(table, user_id) == get_user_feedback(table, user_id)

\* train_on_feedback(user_id): the value returned, the models the call leaves
\* in memory, and the training set it built (empty when it built none).
TrainOutcomes(user_id, fail) ==
    LET feedback_data == TrainingFeedback(feedback, user_id)
        Left(value, v, c, X_text, y, saved) ==
            [ret |-> value, vectorizer |-> v, classifier |-> c,
             X_text |-> X_text, y |-> y, saved |-> saved]
        Unchanged == { Left(FALSE, vectorizer, classifier, <<>>, <<>>, FALSE) }
    IN  IF fail = "feedback" THEN Unchanged
        ELSE IF Len(feedback_data) < MinFeedbackForTraining THEN Unchanged
        ELSE IF \E i \in 1..Len(feedback_data) : feedback_data[i].recipe = None THEN Unchanged
        ELSE LET X_text == [i \in 1..Len(feedback_data) |->
                               _extract_recipe_features(feedback_data[i].recipe[1])]
                 y == [i \in 1..Len(feedback_data) |-> Label(feedback_data[i].rating)]
                 fitted == FitVectorizer(X_text)
             IN  IF fail = "vectorizer" \/ TermsOf(X_text) = {}
                 THEN { Left(FALSE, vectorizer, classifier, X_text, y, FALSE) }
                 ELSE IF fail = "classifier" \/ \A i \in 1..Len(y) : y[i] = y[1]
                 THEN { Left(FALSE, fitted, c, X_text, y, FALSE) :
                          c \in AfterFailedFit(classifier, fitted.vocabulary) }
                 ELSE { Left(TRUE, fitted, FitClassifier(X_text, y, fitted.vocabulary),
                             X_text, y, TRUE) }

\* _save_models: every failure is caught; a failed dump leaves the file as
\* it was or with a part of the pickle.
SaveOutcomes(v, c, fail) ==
    IF fail = "save" THEN { model_file, CorruptModels } ELSE { SavedModels(v, c) }

train_on_feedback(user_id, fail) ==
    \E out \in TrainOutcomes(user_id, fail) :
        /\ vectorizer' = out.vectorizer
        /\ classifier' = out.classifier
        /\ IF out.saved
           THEN model_file' \in SaveOutcomes(out.vectorizer, out.classifier, fail)
           ELSE model_file' = model_file
        /\ op' = [name |-> "train", user_id |-> user_id,
                  X_text |-> out.X_text, y |-> out.y]
        /\ ret' = Some(out.ret)
        /\ UNCHANGED <<now, cacheVars, dbVars, apiVars, sessionVars, rngVars>>

\* RecipeRanker.__init__ in a new process: _load_models.
_load_models ==
    /\ IF model_file # None /\ ~model_file[1].corrupt
       THEN /\ vectorizer' = model_file[1].vectorizer
            /\ classifier' = model_file[1].classifier
       ELSE /\ vectorizer' = NewVectorizer
            /\ classifier' = NewClassifier
    /\ op' = [name |-> "load"]
    /\ ret' = None
    /\ UNCHANGED <<model_file, now, cacheVars, dbVars, apiVars, sessionVars, rngVars>>

\* A feedback table with n1 documents of u1 and n2 of u2, each with the
\* snapshot of its recipe; u1 dislikes the first recipe.
TrainingStore(n1, n2) ==
    [i \in 1..(n1 + n2) |->
        IF i <= n1
        THEN [user_id |-> "u1", recipe_id |-> i,
              rating |-> IF i = 1 THEN "dislike" ELSE "like", timestamp |-> 0,
              recipe |-> Some(IF i % 2 = 1 THEN OmeletRecipe ELSE StewRecipe)]
        ELSE [user_id |-> "u2", recipe_id |-> i - n1, rating |-> "tried", timestamp |-> 0,
              recipe |-> Some(CurryRecipe)]]

TrainRecipeIds == {1, MinFeedbackForTraining + 1}
TrainRatings == {"tried", "dislike"}
TrainSnapshots == {None, Some(CurryRecipe)}

InitTrain ==
    /\ InitCacheVars /\ InitSessions /\ InitRng /\ InitMlVars /\ InitApiVars /\ InitCalls
    /\ feedback \in { TrainingStore(n1, n2) :
                        n1 \in {MinFeedbackForTraining - 1, MinFeedbackForTraining},
                        n2 \in {0, 1} }
    /\ preferences = <<>>
    /\ lastRating = <<>>

\* The user rates a recipe shown to them.
RateRecipe ==
    \E rid \in TrainRecipeIds, rating \in TrainRatings, data \in TrainSnapshots :
        /\ feedback' = UpsertFeedback(feedback, "u1", rid, rating, data, now)
        /\ op' = [name |-> "save_feedback", user_id |-> "u1", recipe_id |-> rid]
        /\ ret' = None
        /\ UNCHANGED <<preferences, lastRating, now, cacheVars, mlVars, apiVars, sessionVars, rngVars>>

Train == \E u \in Users, fail \in TrainFailModes : train_on_feedback(u, fail)

NextTrain == RateRecipe \/ Train \/ _load_models

SpecTrain == InitTrain /\ [][NextTrain]_vars

(***************************************************************************)
(* Properties of the recipe cache.                                         *)
(***************************************************************************)
EntryPresent(k) == k \in DOMAIN cache /\ MdHas(metadata, k)

Age(k) == now - MdGet(metadata, k).timestamp

\* C4: get_cached_recipes(key) returns the stored recipes whenever an entry
\* for key exists and its age does not exceed the TTL, and returns None
\* exactly when no entry exists or the entry's age exceeds the TTL.
C4_GetWithinTTL ==
    op.name = "get" =>
        LET live == EntryPresent(op.key) /\ Age(op.key) <= cache_duration
        IN  /\ live => ret = Some(cache[op.key])
            /\ ret = None <=> ~live

\* C5: after store_cached_recipes(key, recipes) the entry for key holds
\* exactly the given recipes with a fresh creation timestamp, no entry
\* older than the TTL remains, and the store holds at most max_cache_size
\* entries.
C5_StorePostcondition ==
    op.name = "store" =>
        /\ EntryPresent(op.key)
        /\ cache[op.key] = op.recipes
        /\ MdGet(metadata, op.key).timestamp = now
        /\ DOMAIN cache = MdKeys(metadata)
        /\ \A k \in DOMAIN cache : Age(k) <= cache_duration
        /\ Cardinality(DOMAIN cache) <= max_cache_size

\* A put that overwrote an entry and removed another one.
C5_Witness ==
    /\ op.name = "store"
    /\ op.replaced
    /\ op.removed # {}
    /\ now > cache_duration

\* The entries of the metadata that neither belong to the key being put nor
\* have outlived the TTL at time t: the ones only capacity eviction can remove.
FreshOthers(md, put, t) ==
    { i \in 1..Len(md) : md[i].key # put /\ (t - md[i].timestamp) <= cache_duration }

\* C11: when a put pushes the store over capacity, every entry removed by
\* capacity eviction has a creation timestamp no newer than that of every
\* surviving entry, and exactly as many entries are removed as needed to get
\* back within the capacity bound.
C11_EvictsOldestFirst ==
    [][op'.name = "store" =>
        LET fresh == FreshOthers(metadata, op'.key, now)
            evicted == { i \in fresh : ~MdHas(metadata', metadata[i].key) }
            excess == Cardinality(fresh) + 1 - max_cache_size
        IN  /\ \A i \in evicted : \A j \in 1..Len(metadata') :
                   metadata[i].timestamp <= metadata'[j].timestamp
            /\ Cardinality(evicted) = IF excess > 0 THEN excess ELSE 0]_vars

\* A put that went over capacity and evicted an entry while an older and a
\* newer entry were both stored before it.
C11_Witness ==
    /\ op.name = "store"
    /\ op.evicted # {}
    /\ op.evicted = op.removed
    /\ Len(metadata) = max_cache_size
    /\ \E i \in 1..Len(metadata) : metadata[i].key # op.key /\ metadata[i].timestamp < now

\* C12: a cache hit changes only last_accessed and access_count of the entry
\* that was hit; its payload and creation timestamp, every other entry and
\* the files stay as they were; a miss changes nothing at all.
C12_HitTouchesOnlyAccessMetadata ==
    [][op'.name = "get" =>
        /\ cache' = cache
        /\ cache_file' = cache_file
        /\ metadata_file' = metadata_file
        /\ IF ret' = None
           THEN metadata' = metadata
           ELSE /\ Len(metadata') = Len(metadata)
                /\ \A i \in 1..Len(metadata) :
                       IF metadata[i].key = op'.key
                       THEN /\ metadata'[i].key = metadata[i].key
                            /\ metadata'[i].timestamp = metadata[i].timestamp
                            /\ metadata'[i].recipe_count = metadata[i].recipe_count
                       ELSE metadata'[i] = metadata[i]]_vars

\* A hit on one of two stored entries, some time after it was stored.
C12_Witness ==
    /\ op.name = "get"
    /\ ret # None
    /\ Len(metadata) >= 2
    /\ MdGet(metadata, op.key).access_count > 1
    /\ MdGet(metadata, op.key).last_accessed > MdGet(metadata, op.key).timestamp

(***************************************************************************)
(* Properties of the ranker.                                               *)
(***************************************************************************)
CountOrZero(field) == IF field = None THEN 0 ELSE Len(field[1])

\* clamp(|used| / max(|user|, 1) - 0.1 |missed| + healthScore / 100 * 0.2 + time_bonus, 0, 1)
FormulaScore(recipe, user_ingredients) ==
    LET n == IF Len(user_ingredients) >= 1 THEN Len(user_ingredients) ELSE 1
        health == IF recipe.healthScore = None THEN 50 ELSE recipe.healthScore[1]
        time_bonus ==
            IF recipe.readyInMinutes = None THEN 0
            ELSE IF recipe.readyInMinutes[1] <= 30 THEN SCALE \div 5
            ELSE IF recipe.readyInMinutes[1] <= 45 THEN SCALE \div 10
            ELSE 0
        raw == (CountOrZero(recipe.usedIngredients) * SCALE) \div n
                 - CountOrZero(recipe.missedIngredients) * (SCALE \div 10)
                 + (health * SCALE) \div 500
                 + time_bonus
    IN  IF raw < 0 THEN 0 ELSE IF raw > SCALE THEN SCALE ELSE raw

\* C3 as claimed: the base score equals the clamped formula for every recipe,
\* also for one whose usedIngredients list is empty or missing.
C3_BaseScoreFormula ==
    op.name = "base_score" => ret = Some(FormulaScore(op.recipe, op.user_ingredients))

\* C3 as amended: the base score equals the clamped formula for every recipe
\* with a non-empty usedIngredients list, and is 0 for a recipe whose
\* usedIngredients list is empty or missing.
C3_BaseScoreFormulaWhenUsed ==
    op.name = "base_score" =>
        IF CountOrZero(op.recipe.usedIngredients) >= 1
        THEN ret = Some(FormulaScore(op.recipe, op.user_ingredients))
        ELSE ret = Some(0)

\* A scored recipe with used and missed ingredients, an absent healthScore
\* and a time bonus, whose score is strictly inside (0, 1).
C3_Witness ==
    /\ op.name = "base_score"
    /\ CountOrZero(op.recipe.usedIngredients) = 1
    /\ CountOrZero(op.recipe.missedIngredients) = 2
    /\ op.recipe.healthScore = None
    /\ op.recipe.readyInMinutes = Some(45)
    /\ Len(op.user_ingredients) = 3
    /\ ret[1] > 0 /\ ret[1] < SCALE

UserFeedbackCount(user_id) ==
    Cardinality({ i \in 1..Len(feedback) : feedback[i].user_id = user_id })

ModelFitted == vectorizer.fitted /\ classifier.fitted

Unscored(recipe) ==
    [recipe EXCEPT !.base_score = None, !.ml_score = None, !.final_score = None]

Tagged(recipe, tags) ==
    recipe.diets # None /\ \E i \in 1..Len(recipe.diets[1]) : Lower(recipe.diets[1][i]) \in tags

Wants(prefs, flag) == prefs[flag] = Some(TRUE)

VegetarianTags == {"vegetarian", "vegan"}
VeganTags == {"vegan"}
GlutenFreeTags == {"gluten free", "gluten-free"}

\* The preference bonuses of the rule-based path.
ExpectedBonus(recipe, prefs) ==
    (IF Wants(prefs, "vegetarian") /\ Tagged(recipe, VegetarianTags)
        THEN SCALE \div 10 ELSE 0)
    + (IF Wants(prefs, "vegan") /\ Tagged(recipe, VeganTags) THEN SCALE \div 10 ELSE 0)
    + (IF Wants(prefs, "gluten_free") /\ Tagged(recipe, GlutenFreeTags)
        THEN SCALE \div 10 ELSE 0)
    + (IF (IF recipe.readyInMinutes = None THEN 60 ELSE recipe.readyInMinutes[1])
             <= (IF prefs.max_prep_time = None THEN 60 ELSE prefs.max_prep_time[1])
        THEN SCALE \div 20 ELSE 0)
    + (IF /\ recipe.cuisines # None
          /\ prefs.preferred_cuisines # None
          /\ \E i \in 1..Len(recipe.cuisines[1]) :
                \E j \in 1..Len(prefs.preferred_cuisines[1]) :
                    recipe.cuisines[1][i] = prefs.preferred_cuisines[1][j]
        THEN SCALE \div 10 ELSE 0)

\* out is the input reordered by final_score, descending, ties in input order.
RankedStably(out, input, pi) ==
    /\ \A i \in 1..Len(out) : Unscored(out[i]) = input[pi[i]]
    /\ \A i, j \in 1..Len(out) :
          i < j =>
            /\ out[i].final_score[1] >= out[j].final_score[1]
            /\ out[i].final_score[1] = out[j].final_score[1] => pi[i] < pi[j]

RuleScored(out, user_id) ==
    \A i \in 1..Len(out) :
        /\ out[i].base_score # None
        /\ out[i].final_score =
             Some(Min(SCALE, out[i].base_score[1]
                               + ExpectedBonus(out[i], get_user_preferences(preferences, user_id))))

\* C1: rank_recipes takes the learned path only when the querying user has
\* at least 5 stored feedback records and the model is fitted; in every other
\* case the returned ranking is the rule-based one.
C1_MLPathOnlyWhenActivated ==
    (op.name = "rank" /\ op.recipes # <<>>) =>
        LET activated == UserFeedbackCount(op.user_id) >= 5 /\ ModelFitted
        IN  /\ op.path = "ml" => activated
            /\ ~activated =>
                 /\ ~op.raised
                 /\ op.path = "rule"
                 /\ Len(ret[1]) = Len(op.recipes)
                 /\ \A i \in 1..Len(ret[1]) : ret[1][i].ml_score = None
                 /\ RuleScored(ret[1], op.user_id)

\* A fitted model, 4 records of the querying user among 9 in the store, and
\* the rule-based path.
C1_Witness ==
    /\ op.name = "rank"
    /\ op.recipes # <<>>
    /\ op.fail = "none"
    /\ ModelFitted
    /\ UserFeedbackCount(op.user_id) = 4
    /\ Len(feedback) >= 5
    /\ op.path = "rule"

\* C2: for a non-empty recipe list an exception at any stage of the ML path
\* is caught inside rank_recipes, which returns the rule-based ranking.
C2_MLFailureFallsBack ==
    (op.name = "rank" /\ op.recipes # <<>> /\ op.fail # "none") =>
        /\ ~op.raised
        /\ op.path = "rule"
        /\ ret # None
        /\ Len(ret[1]) = Len(op.recipes)
        /\ RuleScored(ret[1], op.user_id)

\* Feature extraction raised, outside _apply_ml_ranking's own handler, for a
\* user with enough feedback and a fitted model.
C2_Witness ==
    /\ op.name = "rank"
    /\ op.recipes # <<>>
    /\ op.fail = "extract"
    /\ UserFeedbackCount(op.user_id) >= 5
    /\ ModelFitted
    /\ op.path = "rule"
    /\ ret # None

\* C9: on the rule-based path final_score = min(1, base_score + bonuses) and
\* the list is sorted by final_score descending, ties in input order.
C9_RuleBasedRanking ==
    (op.name = "rank" /\ op.path = "rule") =>
        /\ Len(ret[1]) = Len(op.recipes)
        /\ RuleScored(ret[1], op.user_id)
        /\ \E pi \in Permutations(1..Len(ret[1])) : RankedStably(ret[1], op.recipes, pi)

\* Three recipes ranked by rules: a tie between different recipes, a score
\* clamped to 1 and a recipe that moved ahead of an earlier one.
C9_Witness ==
    /\ op.name = "rank"
    /\ op.path = "rule"
    /\ Len(ret[1]) = 3
    /\ ret[1][1].final_score = Some(SCALE)
    /\ ret[1][1].base_score[1] + ExpectedBonus(ret[1][1], get_user_preferences(preferences, "u1")) > SCALE
    /\ ret[1][2].final_score = ret[1][3].final_score
    /\ ret[1][2].id # ret[1][3].id
    /\ Unscored(ret[1][1]) = op.recipes[3]

\* C10: on the ML path final_score = 0.6 base_score + 0.4 ml_score, within
\* [0, 1], and the list is sorted by final_score descending, ties in input
\* order.
C10_MLBlendRanking ==
    (op.name = "rank" /\ op.path = "ml") =>
        /\ Len(ret[1]) = Len(op.recipes)
        /\ \A i \in 1..Len(ret[1]) :
              LET r == ret[1][i]
              IN  /\ r.base_score # None /\ r.ml_score # None /\ r.final_score # None
                  /\ r.ml_score[1] \in 0..SCALE
                  /\ 10 * r.final_score[1] = 6 * r.base_score[1] + 4 * r.ml_score[1]
                  /\ r.final_score[1] \in 0..SCALE
        /\ \E pi \in Permutations(1..Len(ret[1])) : RankedStably(ret[1], op.recipes, pi)

\* Three recipes ranked by the model: a tie between different recipes and a
\* recipe that the model moved ahead of an earlier one.
C10_Witness ==
    /\ op.name = "rank"
    /\ op.path = "ml"
    /\ Len(ret[1]) = 3
    /\ ret[1][1].final_score[1] > ret[1][2].final_score[1]
    /\ ret[1][2].final_score = ret[1][3].final_score
    /\ ret[1][2].id # ret[1][3].id
    /\ Unscored(ret[1][1]) = op.recipes[3]
    /\ ret[1][1].ml_score[1] > SCALE \div 2

(***************************************************************************)
(* Properties of the feedback store.                                       *)
(***************************************************************************)
DocsOf(user_id, recipe_id) ==
    { i \in 1..Len(feedback) : Matches(feedback[i], user_id, recipe_id) }

\* C6: with a single writer the feedback store holds at most one record per
\* (user_id, recipe_id), whose rating is that of the most recent save for
\* the pair; get_user_feedback(user_id) returns exactly that user's records.
C6_UpsertLastWriteWins ==
    /\ \A p \in DOMAIN lastRating :
           /\ Cardinality(DocsOf(p[1], p[2])) <= 1
           /\ (lastRating[p] = None) <=> (DocsOf(p[1], p[2]) = {})
           /\ \A i \in DocsOf(p[1], p[2]) : Some(feedback[i].rating) = lastRating[p]
    /\ op.name = "get_feedback" =>
           LET got == ret[1]
               mine == { i \in 1..Len(feedback) : feedback[i].user_id = op.user_id }
           IN  /\ \A j \in 1..Len(got) : got[j].user_id = op.user_id
               /\ Len(got) = Cardinality(mine)
               /\ \A i \in mine : \E j \in 1..Len(got) : got[j] = feedback[i]

\* A read of one user's records from a table that also holds another user's,
\* after a save has overwritten an older document.
C6_Witness ==
    /\ op.name = "get_feedback"
    /\ Len(ret[1]) >= 1
    /\ Len(ret[1]) < Len(feedback)
    /\ \E i, j \in 1..Len(feedback) :
           i < j /\ feedback[i].timestamp > feedback[j].timestamp

(***************************************************************************)
(* Properties of the cache key derivation.                                 *)
(***************************************************************************)
Count(list, x) == Cardinality({ i \in 1..Len(list) : list[i] = x })

IsPermutation(s, t) ==
    /\ Len(s) = Len(t)
    /\ \A i \in 1..Len(s) : Count(s, s[i]) = Count(t, s[i])

SameOptions(ra, rb) ==
    /\ ra.max_recipes = rb.max_recipes
    /\ ra.meal_type = rb.meal_type
    /\ ra.cuisine_filter = rb.cuisine_filter
    /\ ra.diet_filter = rb.diet_filter

\* C7: two requests whose ingredient lists are permutations of each other
\* and whose result limit, meal type, cuisine and diet agree get the same
\* key, from create_cache_key and from the search pipeline alike; two
\* requests that differ in result limit, meal type, cuisine or diet get
\* different keys from both.
C7_KeyOrderIndependent ==
    op.name = "keys" =>
        /\ (SameOptions(op.a, op.b) /\ IsPermutation(op.a.ingredients, op.b.ingredients))
              => /\ ret[1].search_a = ret[1].search_b
                 /\ ret[1].create_a = ret[1].create_b
        /\ ~SameOptions(op.a, op.b)
              => /\ ret[1].search_a # ret[1].search_b
                 /\ ret[1].create_a # ret[1].create_b

\* Two requests with the same options whose ingredient lists differ only in
\* order, given one key by both derivations.
C7_Witness ==
    /\ op.name = "keys"
    /\ SameOptions(op.a, op.b)
    /\ op.a.ingredients # op.b.ingredients
    /\ Len(op.a.ingredients) = MaxKeyIngredients
    /\ IsPermutation(op.a.ingredients, op.b.ingredients)
    /\ ret[1].search_a = ret[1].search_b
    /\ ret[1].create_a = ret[1].create_b

(***************************************************************************)
(* Properties of the recipe provider.                                      *)
(***************************************************************************)
AllTemplates ==
    breakfast_templates \o lunch_templates \o dinner_templates \o dessert_templates
      \o general_templates

PlaceholderTitles ==
    UNION { { AllTemplates[i].base_title } \cup
            { AllTemplates[i].title_patterns[j] : j \in 1..Len(AllTemplates[i].title_patterns) } :
            i \in 1..Len(AllTemplates) }

IsPlaceholderList(list) ==
    \A i \in 1..Len(list) : list[i].id = i /\ list[i].title \in PlaceholderTitles

\* The cases in which no provider result is available.
MustFallBack ==
    \/ ~TruthyStr(api_key)
    \/ op.search.kind = "raises"
    \/ op.search.status_code # 200

\* C8: fetch_recipes never raises; when the API key is absent, the search
\* response is not a success or the request raises, and max_results >= 1,
\* it returns a non-empty list made of the locally generated placeholders.
C8_FetchNeverFails ==
    op.name = "fetch" =>
        /\ ~op.raised
        /\ ret # None
        /\ (MustFallBack /\ op.max_results >= 1)
              => /\ ret[1] # <<>>
                 /\ op.path = "mock"
                 /\ IsPlaceholderList(ret[1])

\* A fetch with a key whose search request raised and that returned placeholders.
C8_Witness ==
    /\ op.name = "fetch"
    /\ api_key = Some("key")
    /\ op.search.kind = "raises"
    /\ op.max_results >= 1
    /\ ~op.raised
    /\ ret # None
    /\ ret[1] # <<>>
    /\ IsPlaceholderList(ret[1])

(***************************************************************************)
(* Properties of the search pipeline.                                      *)
(***************************************************************************)
HasScore(recipe) ==
    recipe.base_score # None \/ recipe.ml_score # None \/ recipe.final_score # None

\* Some recipe of some entry carries a score.
HoldsScores(entries) ==
    \E k \in DOMAIN entries : \E i \in 1..Len(entries[k]) : HasScore(entries[k][i])

\* C13: the scores of the ranking are not persisted: no recipe of a cache
\* entry, in memory or in the cache file, carries a base_score, an ml_score
\* or a final_score.
C13_ScoresNotPersisted ==
    /\ ~HoldsScores(cache)
    /\ cache_file # None => ~HoldsScores(cache_file[1])

\* C17: a search whose text yields no ingredients returns no recipes,
\* fetches nothing, stores nothing and ranks nothing.
C17_NoIngredientsNoSearch ==
    (op.name = "search" /\ op.normalized_ingredients = <<>>) =>
        /\ ~op.fetched
        /\ ~op.stored
        /\ ~op.ranked
        /\ op.message # "error"
        /\ ret = None

(***************************************************************************)
(* Properties of the training.                                             *)
(***************************************************************************)
\* The classifier, when it has coefficients, has them for the vocabulary
\* of the vectorizer.
Paired(v, c) == c.fitted => (v.fitted /\ DOMAIN c.coef = v.vocabulary)

\* C14: the vectorizer and the classifier, in memory and in the model
\* file, come from the same training run: the classifier is never paired
\* with a vocabulary it was not fitted on.
C14_ModelsFromOneRun ==
    /\ Paired(vectorizer, classifier)
    /\ (model_file # None /\ ~model_file[1].corrupt) =>
           Paired(model_file[1].vectorizer, model_file[1].classifier)

\* The documents of the table as a training set: a text and a label each.
TrainingSetOf(table) ==
    [i \in 1..Len(table) |->
        [text |-> IF table[i].recipe = None THEN <<>>
                  ELSE _extract_recipe_features(table[i].recipe[1]),
         label |-> Label(table[i].rating)]]

\* C15: a successful training fits the model on every stored feedback
\* document, of every user, with label 1 for like, love and tried and 0
\* for every other rating.
C15_TrainsOnAllFeedback ==
    (op.name = "train" /\ ret = Some(TRUE)) =>
        [i \in 1..Len(op.y) |-> [text |-> op.X_text[i], label |-> op.y[i]]]
            = TrainingSetOf(feedback)

(***************************************************************************)
(* Properties of concurrent sessions.                                      *)
(***************************************************************************)
BothDone == \A s \in Sessions : sessions[s].pc = "done"

SamePair ==
    \A s, t \in Sessions :
        sessions[s].user_id = sessions[t].user_id /\ sessions[s].recipe_id = sessions[t].recipe_id

\* C16: when two sessions have saved feedback for the same user and recipe
\* concurrently, the table holds exactly one document for the pair, with
\* the rating of one of the two calls.
C16_OneRecordPerPair ==
    (BothDone /\ SamePair) =>
        LET docs == SelectSeq(feedback, LAMBDA d :
                        Matches(d, sessions["s1"].user_id, sessions["s1"].recipe_id))
        IN  /\ Len(docs) = 1
            /\ \E s \in Sessions : docs[1].rating = sessions[s].rating

(***************************************************************************)
(* Properties of ranking twice.                                            *)
(***************************************************************************)
\* C18: ranking is idempotent: a second rank_recipes call for the same
\* user, with the stores and the model unchanged, given the same list or
\* the list the first call returned, returns the recipes in the order of
\* the first call.
C18_RankIdempotent ==
    op.name = "rerank" => (~op.raised /\ ret = op.first)

\* Reached: the first call reordered two recipes, by either path, and the
\* second call was given the list it returned.
C18_Witness ==
    /\ op.name = "rerank"
    /\ Len(op.original) = 2
    /\ op.original[1].id # op.original[2].id
    /\ op.first[1][1].id = op.original[2].id
    /\ op.recipes = op.first[1]
    /\ ret = op.first

(***************************************************************************)
(* Properties of the base score under one more ingredient.                 *)
(***************************************************************************)
\* C19: with the other fields and the user's ingredients fixed, one more
\* used ingredient never lowers the base score, from no used ingredient to
\* one included, and one more missed ingredient never raises it.
C19_BaseScoreMonotone ==
    /\ op.name = "more_used" => ret[1] >= op.before
    /\ op.name = "more_missed" => ret[1] <= op.before

\* Reached: a recipe without used ingredients scores 0 and scores more
\* with one used ingredient.
C19_Witness ==
    /\ op.name = "more_used"
    /\ Len(op.recipe.usedIngredients[1]) = 1
    /\ op.before = 0
    /\ ret[1] > 0

(***************************************************************************)
(* Properties of fetching again.                                           *)
(***************************************************************************)
\* C20: two fetches with the same ingredient list, max_results and meal
\* type that both fall back to placeholders return the same placeholder
\* list, whatever fetch was made in between.
C20_PlaceholdersDeterministic ==
    (op.name = "again" /\ op.path = "mock" /\ op.first.path = "mock") =>
        ret = op.first.value

\* Reached: placeholders for several ingredients, a fetch with other
\* arguments that reseeded the generator in between, and the same
\* placeholders again.
C20_Witness ==
    /\ op.name = "again"
    /\ op.path = "mock"
    /\ op.first.path = "mock"
    /\ op.other.path = "mock"
    /\ op.other.ingredients # op.first.ingredients
    /\ Len(op.first.ingredients) >= 2
    /\ Len(ret[1]) >= 2
    /\ ret = op.first.value

(***************************************************************************)
(* Properties of the normalizer.                                           *)
(***************************************************************************)
\* The segment whose cleaning first gave the token.
FirstSegmentOf(token) ==
    CHOOSE k \in 1..Len(op.cleaned) :
        /\ op.cleaned[k] = Chars(token)
        /\ \A m \in 1..(k - 1) : op.cleaned[m] # Chars(token)

\* C21: the list returned by normalize_ingredients holds no token twice
\* (compared case-insensitively) and no token of length <= 1, and its tokens
\* stand in the order of the segments that first gave them.
C21_NormalizedTokens ==
    op.name = "normalize" =>
        LET result == ret[1]
        IN  /\ \A i, j \in 1..Len(result) :
                  i # j => StrLower(Chars(result[i])) # StrLower(Chars(result[j]))
            /\ \A i \in 1..Len(result) : Len(Chars(result[i])) > 1
            /\ \A i \in 1..Len(result) :
                  \E k \in 1..Len(op.cleaned) : op.cleaned[k] = Chars(result[i])
            /\ \A i, j \in 1..Len(result) :
                  i < j => FirstSegmentOf(result[i]) < FirstSegmentOf(result[j])

\* A text with a repeated token, a single letter and two tokens returned.
C21_Witness ==
    /\ op.name = "normalize"
    /\ Len(ret[1]) >= 2
    /\ \E k, m \in 1..Len(op.cleaned) :
          k < m /\ op.cleaned[k] = op.cleaned[m] /\ Len(op.cleaned[k]) > 1
    /\ \E k \in 1..Len(op.cleaned) : Len(op.cleaned[k]) = 1

\* The phrase left of segment k of the text after the numbers, the
\* measurement words and the special characters are removed.
PhraseOf(k) == CleanText(StrStrip(SplitSegments(StrLower(op.text), <<>>)[k]))

\* No known ingredient matches the phrase, exactly, by a word or by similarity.
Unmatched(phrase) == BestMatches(phrase) = { phrase }

\* C22: the three spellings of tomato normalize to the one token "tomato",
\* and a remaining phrase longer than 3 characters that ends in "s" and has
\* no entry among the known ingredients is returned without the trailing "s".
C22_PluralFolded ==
    op.name = "normalize" =>
        /\ op.text = Join(<<Chars("2 cups chopped tomatoes"), Chars("Tomato"),
                            Chars("fresh tomatoes")>>, <<",", " ">>)
              => ret = Some(<<"tomato">>)
        /\ \A k \in 1..Len(op.cleaned) :
              LET phrase == PhraseOf(k)
              IN  (Len(phrase) > 3 /\ phrase[Len(phrase)] = "s" /\ Unmatched(phrase))
                      => op.cleaned[k] = SubSeq(phrase, 1, Len(phrase) - 1)

\* Every word of the segment is in STOP_WORDS.
OnlyStopWords(segment) ==
    LET words == Words(StrStrip(segment))
    IN  /\ words # <<>>
        /\ \A i \in 1..Len(words) : \E w \in STOP_WORDS : Chars(w) = words[i]

\* C23: a segment made up only of words of STOP_WORDS contributes no token
\* to the list returned by normalize_ingredients.
C23_StopWordsGiveNoToken ==
    op.name = "normalize" =>
        \A k \in 1..Len(op.cleaned) :
            OnlyStopWords(SplitSegments(StrLower(op.text), <<>>)[k])
                => Len(op.cleaned[k]) <= 1

\* The phrase is a known ingredient or holds a word that is one.
ExactlyMatched(phrase) ==
    \/ \E w \in COMMON_INGREDIENTS : Chars(w) = phrase
    \/ \E i \in 1..Len(Words(phrase)) : \E w \in COMMON_INGREDIENTS : Chars(w) = Words(phrase)[i]

\* C24: a phrase without an exact match is replaced by a known ingredient
\* only at a similarity of at least FUZZY_MATCH_THRESHOLD.
C24_FuzzyOnlyAboveThreshold ==
    op.name = "normalize" =>
        \A k \in 1..Len(op.cleaned) :
            LET phrase == PhraseOf(k)
            IN  (phrase # <<>> /\ ~ExactlyMatched(phrase) /\ op.cleaned[k] # phrase)
                    => fuzz_ratio(phrase, op.cleaned[k]) >= FUZZY_MATCH_THRESHOLD

(***************************************************************************)
(* Properties of the search pipeline's ranking and cache use.              *)
(***************************************************************************)
\* C25: the base score of every recipe a search returns is the base score
\* against the normalized ingredients of that search.
C25_ScoredAgainstRequest ==
    (op.name = "search" /\ op.ranked /\ ret # None) =>
        \A i \in 1..Len(ret[1]) :
            ret[1][i].base_score =
                Some(_calculate_base_score(ret[1][i], op.normalized_ingredients))

\* C26: get_cached_recipes reports an entry absent at every time later than
\* its creation timestamp plus the TTL, whatever hits it received, and the
\* creation timestamp of a key changes only in a store_cached_recipes of
\* that key.
C26_HitsDoNotExtendLifetime ==
    [][/\ (op'.name = "get" /\ MdHas(metadata, op'.key)
              /\ now' - MdGet(metadata, op'.key).timestamp > cache_duration)
           => ret' = None
       /\ \A k \in MdKeys(metadata) \cap MdKeys(metadata') :
              MdGet(metadata', k).timestamp # MdGet(metadata, k).timestamp
                  => (op'.name = "store" /\ op'.key = k)]_vars

\* A lookup later than the TTL after the creation of an entry that was hit
\* less than the TTL before the lookup.
C26_Witness ==
    /\ op.name = "get"
    /\ ret = None
    /\ EntryPresent(op.key)
    /\ Age(op.key) > cache_duration
    /\ MdGet(metadata, op.key).access_count > 1
    /\ MdGet(metadata, op.key).last_accessed > MdGet(metadata, op.key).timestamp
    /\ now - MdGet(metadata, op.key).last_accessed < cache_duration

\* C27: from an empty cache, after any calls of get_cached_recipes,
\* store_cached_recipes and clear_cache the recipe map and the metadata map
\* have the same key set.
C27_SameKeySets == DOMAIN cache = MdKeys(metadata)

\* A store that removed entries and left the cache full, after an earlier hit.
C27_Witness ==
    /\ op.name = "store"
    /\ op.removed # {}
    /\ Cardinality(DOMAIN cache) = max_cache_size
    /\ TotalHits(metadata) > 0

(***************************************************************************)
(* Properties of a repeated save of feedback.                              *)
(***************************************************************************)
\* C28: a save_user_feedback for a pair that already has a record changes
\* only the rating and the timestamp of that record: its recipe snapshot is
\* kept, the recipe_data of the call is ignored, and the records of other
\* pairs are unchanged.
C28_UpdateKeepsSnapshot ==
    [][(op'.name = "save_feedback" /\ DocsOf(op'.user_id, op'.recipe_id) # {}) =>
          /\ Len(feedback') = Len(feedback)
          /\ \A i \in 1..Len(feedback) :
                 IF Matches(feedback[i], op'.user_id, op'.recipe_id)
                 THEN feedback'[i] = [feedback[i] EXCEPT !.rating = op'.rating,
                                                         !.timestamp = now]
                 ELSE feedback'[i] = feedback[i]]_vars

\* A later save, with another recipe_data than the snapshot of the record,
\* in a table that also holds a record of another pair.
C28_Witness ==
    /\ op.name = "save_feedback"
    /\ Len(feedback) >= 2
    /\ \E i \in DocsOf(op.user_id, op.recipe_id) :
          /\ feedback[i].recipe # op.recipe_data
          /\ feedback[i].rating = op.rating
          /\ feedback[i].timestamp = now
          /\ now > 0

(***************************************************************************)
(* Properties of the list rank_recipes returns.                            *)
(***************************************************************************)
\* C29: on the ML path and on the rule-based path rank_recipes returns the
\* recipes of its input, each as often as the input holds it, every one with
\* a final_score in [0, 1]; an empty input is returned as it is, before any
\* scoring and before any store is read.
C29_RankReturnsPermutation ==
    (op.name = "rank" /\ ~op.raised) =>
        IF op.recipes = <<>>
        THEN ret = Some(<<>>) /\ op.path = "empty"
        ELSE /\ op.path \in {"ml", "rule"}
             /\ IsPermutation([i \in 1..Len(ret[1]) |-> Unscored(ret[1][i])], op.recipes)
             /\ \A i \in 1..Len(ret[1]) :
                   /\ ret[1][i].final_score # None
                   /\ ret[1][i].final_score[1] >= 0
                   /\ ret[1][i].final_score[1] <= SCALE

\* A ranking on the ML path that put another recipe first.
C29_Witness ==
    /\ op.name = "rank"
    /\ op.path = "ml"
    /\ Len(op.recipes) >= 2
    /\ Len(ret[1]) = Len(op.recipes)
    /\ Unscored(ret[1][1]) # op.recipes[1]

(***************************************************************************)
(* Properties of searching again.                                          *)
(***************************************************************************)
\* The cache holds recipes for the key that have not outlived the TTL.
Answerable(k) ==
    /\ k \in DOMAIN cache
    /\ MdHas(metadata, k)
    /\ now - MdGet(metadata, k).timestamp < cache_duration
    /\ cache[k] # <<>>

UnscoredList(recipes) == [i \in 1..Len(recipes) |-> Unscored(recipes[i])]

\* C30: a search whose key has stored recipes within the TTL is answered
\* with those recipes and calls neither the provider nor the placeholder
\* generator; every other search, one whose key has a stored empty result
\* included, fetches, and what the fetch returned is stored under the key.
C30_FetchOnlyOnMiss ==
    [][(op'.name = "search" /\ op'.message # "enter") =>
          IF Answerable(op'.key)
          THEN /\ ~op'.fetched
               /\ op'.recipes = cache[op'.key]
               /\ ret' # None
               /\ IsPermutation(UnscoredList(ret'[1]), UnscoredList(cache[op'.key]))
               /\ random_state' = random_state
               /\ cache_file' = cache_file
          ELSE /\ op'.fetched
               /\ op'.stored
               /\ op'.key \in DOMAIN cache'
               /\ UnscoredList(cache'[op'.key]) = UnscoredList(op'.recipes)
               /\ MdGet(metadata', op'.key).timestamp = now
               /\ IF op'.recipes = <<>> THEN ret' = None
                  ELSE /\ ret' # None
                       /\ IsPermutation(UnscoredList(ret'[1]), UnscoredList(op'.recipes))]_vars

\* A search answered from the cache with the placeholders that a failed
\* provider call had left there.
C30_Witness ==
    /\ op.name = "search"
    /\ op.hit
    /\ ~op.fetched
    /\ TruthyStr(api_key)
    /\ ret # None
    /\ Len(ret[1]) >= 2
    /\ \A i \in 1..Len(ret[1]) : ret[1][i].id \notin ProviderIds

====
